---- MODULE Spec2Model ----
(***************************************************************************)
(* The cube state engine of src/models.py (class RubiksCube) and the       *)
(* solving layer of src/cube_solver.py (class CubeSolver) as a state       *)
(* machine.  Python objects live in a small memory: a cube handle holds a  *)
(* reference to its faces object and one to its move_history list, so that *)
(* sharing between a cube and its clone is something the model can show.   *)
(***************************************************************************)
EXTENDS Integers, Sequences, FiniteSets, TLC

VARIABLES
    mem,                 \* the cubes and the objects they refer to
    submitted,           \* per cube: the tokens handed to it since construction or reset
    returned,            \* per cube: what apply_move returned for each of them
    KOCIEMBA_AVAILABLE,  \* cube_solver.py: whether `import kociemba` succeeded
    result,              \* what CubeSolver.solve returned, once it has been called
    scramble,            \* what cube.generate_scramble(length) returned, once called
    state,               \* what cube.get_state() returned, once called, and the move count
                         \* the caller read with it
    threads,             \* the apply_move calls of concurrent callers: where each is in the
                         \* code and the locals it holds
    api                  \* app.py: the response of the last request handled, and where the
                         \* /api/solve handler in flight is and the locals it holds

vars == <<mem, submitted, returned, KOCIEMBA_AVAILABLE, result, scramble, state, threads, api>>

\* the values callers hold from the queries, and the calls in flight
locals == <<scramble, state, threads, api>>

\* the concurrent callers
Threads == {1, 2}

\* a caller that has not called apply_move
Idle == [status |-> "idle", cube |-> "cube", move |-> "", pc |-> 0,
         temp_face |-> <<>>, temp |-> <<>>, value |-> ""]

\* no concurrent callers at work
NoThreads == [sharing |-> "none", of |-> [t \in Threads |-> Idle]]

\* generate_scramble and get_state have not been called
NoScramble == [called |-> FALSE, length |-> 0, moves |-> <<>>]
NoState == [called |-> FALSE, value |-> <<>>, move_count |-> 0]

\* no request has been handled and no /api/solve handler is in flight
NoResponse == [endpoint |-> "", argument |-> "", status |-> 0, success |-> FALSE]
NoApi == [serialized |-> TRUE, response |-> NoResponse, pc |-> "idle", algorithm |-> "",
          between |-> {}]

---------------------------------------------------------------------------
(* Bounds of the model *)

\* longest log of tokens submitted to one cube since construction or reset
MaxSubmitted == 2

\* longest token list handed to one apply_move_sequence call
MaxSequence == 2

\* object slots of each kind (faces objects, history lists) in the memory
NumRefs == 3

\* size range the API layer admits (app.py, create_new_cube)
MinSize == 2
MaxSize == 7
Sizes == MinSize..MaxSize

---------------------------------------------------------------------------
(* Alphabet, faces and colors *)

FaceIds == {"U", "R", "F", "D", "L", "B"}

\* the 12 tokens apply_move recognizes
Moves == {"U", "U'", "R", "R'", "F", "F'", "D", "D'", "L", "L'", "B", "B'"}

\* tokens outside the alphabet that callers do submit
BadTokens == {"F2", "u", "M", "", "Reset"}

Tokens == Moves \cup BadTokens

Colors == {"W", "R", "G", "Y", "O", "B"}

\* RubiksCube.__init__: the color every cell of a face starts with
InitColor(face) ==
    CASE face = "U" -> "W"
      [] face = "R" -> "R"
      [] face = "F" -> "G"
      [] face = "D" -> "Y"
      [] face = "L" -> "O"
      [] face = "B" -> "B"

\* RubiksCube.__init__: self.faces of a new cube of the given size
NewFaces(size) ==
    [face \in FaceIds |-> [r \in 0..(size - 1) |-> [c \in 0..(size - 1) |-> InitColor(face)]]]

---------------------------------------------------------------------------
(* Writes to a strip of a face.  vals[i] is the value the code assigns in   *)
(* iteration i of its loop; every loop of the engine writes each cell of    *)
(* the strip once and reads no cell it has written.                         *)

\* self.faces[face][row] = vals           (a whole row is replaced)
WriteRow(fs, face, row, vals) == [fs EXCEPT ![face][row] = vals]

\* for i in range(n): self.faces[face][i][col] = vals[i]
WriteCol(fs, face, col, vals) ==
    [fs EXCEPT ![face] = [i \in DOMAIN vals |-> [fs[face][i] EXCEPT ![col] = vals[i]]]]

\* for i in range(n): self.faces[face][n-1-i][col] = vals[i]
WriteColReversed(fs, face, col, vals, n) ==
    [fs EXCEPT ![face] = [r \in DOMAIN vals |-> [fs[face][r] EXCEPT ![col] = vals[n - 1 - r]]]]

---------------------------------------------------------------------------
(* Rotation of a face's own grid *)

\* a rotation that transposes the grid: f[j][i] = temp[i][j]
rotate_face_clockwise_transposed(fs, face, n) ==
    LET temp == fs[face]
    IN  [fs EXCEPT ![face] =
            [r \in 0..(n - 1) |-> [c \in 0..(n - 1) |-> temp[c][r]]]]

\* RubiksCube.rotate_face_clockwise: temp is a copy of the grid and the loops
\* assign f[j][n-1-i] = temp[i][j]; cell (r, c) is written once, by i = n-1-c, j = r
rotate_face_clockwise(fs, face, n) ==
    LET temp == fs[face]
    IN  [fs EXCEPT ![face] =
            [r \in 0..(n - 1) |-> [c \in 0..(n - 1) |-> temp[n - 1 - c][r]]]]

\* RubiksCube.rotate_face_counterclockwise: the loops assign f[n-1-j][i] = temp[i][j];
\* cell (r, c) is written once, by i = c, j = n-1-r
rotate_face_counterclockwise(fs, face, n) ==
    LET temp == fs[face]
    IN  [fs EXCEPT ![face] =
            [r \in 0..(n - 1) |-> [c \in 0..(n - 1) |-> temp[c][n - 1 - r]]]]

---------------------------------------------------------------------------
(* The twelve moves; fs is self.faces, n is self.size *)

\* an Up turn that fills the last strip from the Front row instead of temp
move_U_lost_temp(fs, n) ==
    LET f0 == rotate_face_clockwise(fs, "U", n)
        f1 == WriteRow(f0, "F", 0, f0["R"][0])
        f2 == WriteRow(f1, "R", 0, f1["B"][0])
        f3 == WriteRow(f2, "B", 0, f2["L"][0])
    IN  WriteRow(f3, "L", 0, f3["F"][0])

\* RubiksCube._move_U
move_U(fs, n) ==
    LET f0 == rotate_face_clockwise(fs, "U", n)
        temp == f0["F"][0]
        f1 == WriteRow(f0, "F", 0, f0["R"][0])
        f2 == WriteRow(f1, "R", 0, f1["B"][0])
        f3 == WriteRow(f2, "B", 0, f2["L"][0])
    IN  WriteRow(f3, "L", 0, temp)

\* an Up counter-clockwise turn that cycles the four rows and leaves the Up grid unrotated
move_U_prime_unrotated(fs, n) ==
    LET temp == fs["F"][0]
        f1 == WriteRow(fs, "F", 0, fs["L"][0])
        f2 == WriteRow(f1, "L", 0, f1["B"][0])
        f3 == WriteRow(f2, "B", 0, f2["R"][0])
    IN  WriteRow(f3, "R", 0, temp)

\* RubiksCube._move_U_prime
move_U_prime(fs, n) ==
    LET f0 == rotate_face_counterclockwise(fs, "U", n)
        temp == f0["F"][0]
        f1 == WriteRow(f0, "F", 0, f0["L"][0])
        f2 == WriteRow(f1, "L", 0, f1["B"][0])
        f3 == WriteRow(f2, "B", 0, f2["R"][0])
    IN  WriteRow(f3, "R", 0, temp)

\* a Right turn that reads the Back column top-down: D[i][n-1] = B[i][0]
move_R_unreversed(fs, n) ==
    LET f0 == rotate_face_clockwise(fs, "R", n)
        temp == [i \in 0..(n - 1) |-> f0["U"][i][n - 1]]
        f1 == WriteCol(f0, "U", n - 1, [i \in 0..(n - 1) |-> f0["F"][i][n - 1]])
        f2 == WriteCol(f1, "F", n - 1, [i \in 0..(n - 1) |-> f1["D"][i][n - 1]])
        f3 == WriteCol(f2, "D", n - 1, [i \in 0..(n - 1) |-> f2["B"][i][0]])
    IN  WriteColReversed(f3, "B", 0, temp, n)

\* RubiksCube._move_R: one loop whose body makes the four assignments in this order
move_R(fs, n) ==
    LET f0 == rotate_face_clockwise(fs, "R", n)
        temp == [i \in 0..(n - 1) |-> f0["U"][i][n - 1]]
        f1 == WriteCol(f0, "U", n - 1, [i \in 0..(n - 1) |-> f0["F"][i][n - 1]])
        f2 == WriteCol(f1, "F", n - 1, [i \in 0..(n - 1) |-> f1["D"][i][n - 1]])
        f3 == WriteCol(f2, "D", n - 1, [i \in 0..(n - 1) |-> f2["B"][n - 1 - i][0]])
    IN  WriteColReversed(f3, "B", 0, temp, n)

\* RubiksCube._move_R_prime
move_R_prime(fs, n) ==
    LET f0 == rotate_face_counterclockwise(fs, "R", n)
        temp == [i \in 0..(n - 1) |-> f0["U"][i][n - 1]]
        f1 == WriteCol(f0, "U", n - 1, [i \in 0..(n - 1) |-> f0["B"][n - 1 - i][0]])
        f2 == WriteColReversed(f1, "B", 0, [i \in 0..(n - 1) |-> f1["D"][i][n - 1]], n)
        f3 == WriteCol(f2, "D", n - 1, [i \in 0..(n - 1) |-> f2["F"][i][n - 1]])
    IN  WriteCol(f3, "F", n - 1, temp)

\* RubiksCube._move_F
move_F(fs, n) ==
    LET f0 == rotate_face_clockwise(fs, "F", n)
        temp == f0["U"][n - 1]
        f1 == WriteRow(f0, "U", n - 1, [i \in 0..(n - 1) |-> f0["L"][n - 1 - i][n - 1]])
        f2 == WriteCol(f1, "L", n - 1, [i \in 0..(n - 1) |-> f1["D"][0][i]])
        f3 == WriteRow(f2, "D", 0, [i \in 0..(n - 1) |-> f2["R"][n - 1 - i][0]])
    IN  WriteCol(f3, "R", 0, temp)

\* a Front counter-turn that writes the Left column unreversed: L[i][n-1] = temp[i]
move_F_prime_unreversed(fs, n) ==
    LET f0 == rotate_face_counterclockwise(fs, "F", n)
        temp == f0["U"][n - 1]
        f1 == WriteRow(f0, "U", n - 1, [i \in 0..(n - 1) |-> f0["R"][i][0]])
        f2 == WriteCol(f1, "R", 0, [i \in 0..(n - 1) |-> f1["D"][0][n - 1 - i]])
        f3 == WriteRow(f2, "D", 0, [i \in 0..(n - 1) |-> f2["L"][i][n - 1]])
    IN  WriteCol(f3, "L", n - 1, temp)

\* RubiksCube._move_F_prime
move_F_prime(fs, n) ==
    LET f0 == rotate_face_counterclockwise(fs, "F", n)
        temp == f0["U"][n - 1]
        f1 == WriteRow(f0, "U", n - 1, [i \in 0..(n - 1) |-> f0["R"][i][0]])
        f2 == WriteCol(f1, "R", 0, [i \in 0..(n - 1) |-> f1["D"][0][n - 1 - i]])
        f3 == WriteRow(f2, "D", 0, [i \in 0..(n - 1) |-> f2["L"][i][n - 1]])
    IN  WriteCol(f3, "L", n - 1, [i \in 0..(n - 1) |-> temp[n - 1 - i]])

\* a Down turn that rotates the Down face and leaves the bottom rows of the side faces
move_D_face_only(fs, n) == rotate_face_clockwise(fs, "D", n)

\* RubiksCube._move_D
move_D(fs, n) ==
    LET f0 == rotate_face_clockwise(fs, "D", n)
        temp == f0["F"][n - 1]
        f1 == WriteRow(f0, "F", n - 1, f0["L"][n - 1])
        f2 == WriteRow(f1, "L", n - 1, f1["B"][n - 1])
        f3 == WriteRow(f2, "B", n - 1, f2["R"][n - 1])
    IN  WriteRow(f3, "R", n - 1, temp)

\* RubiksCube._move_D_prime
move_D_prime(fs, n) ==
    LET f0 == rotate_face_counterclockwise(fs, "D", n)
        temp == f0["F"][n - 1]
        f1 == WriteRow(f0, "F", n - 1, f0["R"][n - 1])
        f2 == WriteRow(f1, "R", n - 1, f1["B"][n - 1])
        f3 == WriteRow(f2, "B", n - 1, f2["L"][n - 1])
    IN  WriteRow(f3, "L", n - 1, temp)

\* RubiksCube._move_L: one loop whose body makes the four assignments in this order
move_L(fs, n) ==
    LET f0 == rotate_face_clockwise(fs, "L", n)
        temp == [i \in 0..(n - 1) |-> f0["U"][i][0]]
        f1 == WriteCol(f0, "U", 0, [i \in 0..(n - 1) |-> f0["B"][n - 1 - i][n - 1]])
        f2 == WriteColReversed(f1, "B", n - 1, [i \in 0..(n - 1) |-> f1["D"][i][0]], n)
        f3 == WriteCol(f2, "D", 0, [i \in 0..(n - 1) |-> f2["F"][i][0]])
    IN  WriteCol(f3, "F", 0, temp)

\* RubiksCube._move_L_prime
move_L_prime(fs, n) ==
    LET f0 == rotate_face_counterclockwise(fs, "L", n)
        temp == [i \in 0..(n - 1) |-> f0["U"][i][0]]
        f1 == WriteCol(f0, "U", 0, [i \in 0..(n - 1) |-> f0["F"][i][0]])
        f2 == WriteCol(f1, "F", 0, [i \in 0..(n - 1) |-> f1["D"][i][0]])
        f3 == WriteCol(f2, "D", 0, [i \in 0..(n - 1) |-> f2["B"][n - 1 - i][n - 1]])
    IN  WriteColReversed(f3, "B", n - 1, temp, n)

\* a Back turn that cycles the Down face's first row instead of its last
move_B_wrong_row(fs, n) ==
    LET f0 == rotate_face_clockwise(fs, "B", n)
        temp == f0["U"][0]
        f1 == WriteRow(f0, "U", 0, [i \in 0..(n - 1) |-> f0["R"][i][n - 1]])
        f2 == WriteCol(f1, "R", n - 1, [i \in 0..(n - 1) |-> f1["D"][0][n - 1 - i]])
        f3 == WriteRow(f2, "D", 0, [i \in 0..(n - 1) |-> f2["L"][i][0]])
    IN  WriteCol(f3, "L", 0, [i \in 0..(n - 1) |-> temp[n - 1 - i]])

\* RubiksCube._move_B
move_B(fs, n) ==
    LET f0 == rotate_face_clockwise(fs, "B", n)
        temp == f0["U"][0]
        f1 == WriteRow(f0, "U", 0, [i \in 0..(n - 1) |-> f0["R"][i][n - 1]])
        f2 == WriteCol(f1, "R", n - 1, [i \in 0..(n - 1) |-> f1["D"][n - 1][n - 1 - i]])
        f3 == WriteRow(f2, "D", n - 1, [i \in 0..(n - 1) |-> f2["L"][i][0]])
    IN  WriteCol(f3, "L", 0, [i \in 0..(n - 1) |-> temp[n - 1 - i]])

\* RubiksCube._move_B_prime
move_B_prime(fs, n) ==
    LET f0 == rotate_face_counterclockwise(fs, "B", n)
        temp == f0["U"][0]
        f1 == WriteRow(f0, "U", 0, [i \in 0..(n - 1) |-> f0["L"][n - 1 - i][0]])
        f2 == WriteCol(f1, "L", 0, [i \in 0..(n - 1) |-> f1["D"][n - 1][i]])
        f3 == WriteRow(f2, "D", n - 1, [i \in 0..(n - 1) |-> f2["R"][n - 1 - i][n - 1]])
    IN  WriteCol(f3, "R", n - 1, temp)

\* RubiksCube.apply_move, lines 114-137: the dispatch on a recognized token
dispatch(fs, n, move) ==
    CASE move = "U"  -> move_U(fs, n)
      [] move = "U'" -> move_U_prime(fs, n)
      [] move = "R"  -> move_R(fs, n)
      [] move = "R'" -> move_R_prime(fs, n)
      [] move = "F"  -> move_F(fs, n)
      [] move = "F'" -> move_F_prime(fs, n)
      [] move = "D"  -> move_D(fs, n)
      [] move = "D'" -> move_D_prime(fs, n)
      [] move = "L"  -> move_L(fs, n)
      [] move = "L'" -> move_L_prime(fs, n)
      [] move = "B"  -> move_B(fs, n)
      [] move = "B'" -> move_B_prime(fs, n)

\* the faces after the move a recognized token names; the CHOOSE has TLC write the
\* grids out cell by cell, as the lists of the program are, instead of keeping a chain
\* of index maps from one move to the next
Turn(fs, n, move) == CHOOSE after \in {dispatch(fs, n, move)} : after = after

---------------------------------------------------------------------------
(* Queries; fs is self.faces, n is self.size *)

\* is_solved that compares only the row holding the reference sticker
is_solved_center_row(fs, n) ==
    \A face \in FaceIds :
        \A c \in 0..(n - 1) : fs[face][n \div 2][c] = fs[face][n \div 2][n \div 2]

\* an is_solved that does not look at the first row of a face
is_solved_below_first_row(fs, n) ==
    \A face \in FaceIds :
        LET center_color == fs[face][n \div 2][n \div 2]
        IN  \A r \in 1..(n - 1) : \A c \in 0..(n - 1) : fs[face][r][c] = center_color

\* RubiksCube.is_solved: every sticker of a face equals face[n // 2][n // 2]
is_solved(fs, n) ==
    \A face \in FaceIds :
        LET center_color == fs[face][n \div 2][n \div 2]
        IN  \A r \in 0..(n - 1) : \A c \in 0..(n - 1) : fs[face][r][c] = center_color

\* RubiksCube.is_valid_state, lines 169-177: the histogram of one color
color_count(fs, n, color) ==
    Cardinality({cell \in FaceIds \X (0..(n - 1)) \X (0..(n - 1)) :
                    fs[cell[1]][cell[2]][cell[3]] = color})

\* an is_valid_state that rejects unknown values and never compares the histogram
is_valid_state_no_histogram(fs, n) ==
    \A face \in FaceIds : \A r \in 0..(n - 1) : \A c \in 0..(n - 1) : fs[face][r][c] \in Colors

\* RubiksCube.is_valid_state
is_valid_state(fs, n) ==
    /\ \A face \in FaceIds : \A r \in 0..(n - 1) : \A c \in 0..(n - 1) : fs[face][r][c] \in Colors
    /\ \A color \in Colors : color_count(fs, n, color) = n * n

---------------------------------------------------------------------------
(* The memory: cube handles and the objects they refer to *)

\* cube is the caller's cube, clone a copy the caller took, working_cube the solver's copy
Handles == {"cube", "clone", "working_cube"}

Refs == 1..NumRefs

NoCube == [live |-> FALSE, size |-> 0, faces |-> 0, move_history |-> 0]

NoFaces == [face \in FaceIds |-> <<>>]

\* the faces slots some live handle other than h refers to
FacesHeld(m, h) == {m.cubes[k].faces : k \in {k \in Handles : k # h /\ m.cubes[k].live}}

\* the history slots some live handle other than h refers to
HistHeld(m, h) == {m.cubes[k].move_history : k \in {k \in Handles : k # h /\ m.cubes[k].live}}

\* a new object takes the first slot nothing else refers to
NewRef(held) == CHOOSE r \in Refs : r \notin held /\ \A q \in Refs : q < r => q \in held

FacesOf(m, h) == m.faces[m.cubes[h].faces]

HistoryOf(m, h) == m.hist[m.cubes[h].move_history]

SizeOf(m, h) == m.cubes[h].size

\* RubiksCube.__init__ run on handle h: self.size, a new faces object, a new empty list
construct(m, h, size) ==
    LET fr == NewRef(FacesHeld(m, h))
        hr == NewRef(HistHeld(m, h))
    IN  [cubes |-> [m.cubes EXCEPT ![h] = [live |-> TRUE, size |-> size,
                                           faces |-> fr, move_history |-> hr]],
         faces |-> [m.faces EXCEPT ![fr] = NewFaces(size)],
         hist  |-> [m.hist EXCEPT ![hr] = <<>>]]

\* a reset that runs __init__ with its default size
reset_default_size(m, h) == construct(m, h, 3)

\* RubiksCube.reset: self.__init__(self.size)
reset(m, h) == construct(m, h, m.cubes[h].size)

\* a clone that keeps the original's faces object and history list
clone_shared(m, h, new) ==
    [m EXCEPT !.cubes[new] = [live |-> TRUE, size |-> m.cubes[h].size,
                              faces |-> m.cubes[h].faces,
                              move_history |-> m.cubes[h].move_history]]

\* a clone that copies the faces and starts with an empty history
clone_empty_history(m, h, new) ==
    LET c == construct(m, new, m.cubes[h].size)
    IN  [c EXCEPT !.faces[c.cubes[new].faces] = FacesOf(m, h)]

\* RubiksCube.clone: a new cube whose faces are json.loads(json.dumps(self.faces))
\* and whose history is self.move_history.copy(), bound to handle new
clone(m, h, new) ==
    LET c == construct(m, new, m.cubes[h].size)
    IN  [c EXCEPT !.faces[c.cubes[new].faces] = FacesOf(m, h),
                  !.hist[c.cubes[new].move_history] = HistoryOf(m, h)]

\* whether the move raises IndexError on a cube of size n: the subscripts written
\* outside the loops over range(n) (temp = self.faces['F'][0][:] of _move_U, and the
\* like) against a list of n rows, which Python subscripts with -n..n-1; the subscripts
\* inside the loops are taken only when range(n) is not empty
raises_IndexError(move, n) ==
    LET subscripts == CASE move \in {"U", "U'", "B", "B'"} -> {0}
                        [] move \in {"D", "D'", "F", "F'"} -> {n - 1}
                        [] move \in {"R", "R'", "L", "L'"} -> {}
    IN  \E i \in subscripts : i \notin (0 - n)..(n - 1)

\* apply_move that records the token before it looks at it
apply_move_logs_first(m, h, move) ==
    IF move \in Moves
    THEN [mem |-> [m EXCEPT !.faces[m.cubes[h].faces] = Turn(@, m.cubes[h].size, move),
                            !.hist[m.cubes[h].move_history] = Append(@, move)],
          ret |-> TRUE]
    ELSE [mem |-> [m EXCEPT !.hist[m.cubes[h].move_history] = Append(@, move)], ret |-> FALSE]

\* apply_move that compares tokens without regard to case: "u" is taken for "U"
apply_move_ignores_case(m, h, move) ==
    LET token == IF move = "u" THEN "U" ELSE move
    IN  IF token \in Moves
        THEN [mem |-> [m EXCEPT !.faces[m.cubes[h].faces] = Turn(@, m.cubes[h].size, token),
                                !.hist[m.cubes[h].move_history] = Append(@, move)],
              ret |-> TRUE]
        ELSE [mem |-> m, ret |-> FALSE]

\* RubiksCube.apply_move: [mem: the memory after the call, ret: the value returned].
\* An exception raised in the move is caught at line 143: the subscript that raises is
\* in the first statement after the rotation of the turned face, which on the only
\* size that raises ran over an empty range, so nothing was written before it.
apply_move(m, h, move) ==
    IF move \in Moves
    THEN IF raises_IndexError(move, m.cubes[h].size)
         THEN [mem |-> m, ret |-> FALSE]
         ELSE [mem |-> [m EXCEPT !.faces[m.cubes[h].faces] = Turn(@, m.cubes[h].size, move),
                                 !.hist[m.cubes[h].move_history] = Append(@, move)],
               ret |-> TRUE]
    ELSE [mem |-> m, ret |-> FALSE]

\* Body applied to a value computed once: what an assignment to a local variable does
With(value, Body(_)) == CHOOSE out \in {Body(v) : v \in {value}} : TRUE

\* RubiksCube.apply_move_sequence, the calls for moves[lo..hi]: those for the first half
\* of the range, then on the resulting cube those for the second half
RECURSIVE apply_moves(_, _, _, _, _)
apply_moves(m, h, moves, lo, hi) ==
    IF lo > hi THEN m
    ELSE IF lo = hi THEN apply_move(m, h, moves[lo]).mem
    ELSE With((lo + hi) \div 2, LAMBDA mid :
             With(apply_moves(m, h, moves, lo, mid), LAMBDA half :
                 apply_moves(half, h, moves, mid + 1, hi)))

\* an apply_move_sequence that stops at the first token apply_move rejects
apply_move_sequence_short_circuit(m, h, moves) ==
    LET rejected == {i \in 1..Len(moves) : moves[i] \notin Moves}
        last == IF rejected = {} THEN Len(moves)
                ELSE (CHOOSE i \in rejected : \A k \in rejected : i <= k) - 1
    IN  apply_moves(m, h, moves, 1, last)

\* RubiksCube.apply_move_sequence: for move in moves: self.apply_move(move)
apply_move_sequence(m, h, moves) ==
    With(moves, LAMBDA list : apply_moves(m, h, list, 1, Len(list)))

\* the values apply_move returns, call by call, inside apply_move_sequence
RECURSIVE sequence_returns(_, _, _)
sequence_returns(m, h, moves) ==
    IF moves = <<>> THEN <<>>
    ELSE <<apply_move(m, h, Head(moves)).ret>>
         \o sequence_returns(apply_move(m, h, Head(moves)).mem, h, Tail(moves))

---------------------------------------------------------------------------
(* The state machine of one cube driven through its public operations *)

EmptyMem ==
    [cubes |-> [h \in Handles |-> NoCube],
     faces |-> [r \in Refs |-> NoFaces],
     hist  |-> [r \in Refs |-> <<>>]]

NoLog == [h \in Handles |-> <<>>]

\* solve has not been called
NoResult == [called |-> FALSE, success |-> FALSE, moves |-> <<>>]

\* RubiksCube(size): the caller has chosen a size in the admitted range; the engine
\* is used without the solving layer
Init ==
    /\ \E size \in Sizes : mem = construct(EmptyMem, "cube", size)
    /\ submitted = NoLog
    /\ returned = NoLog
    /\ KOCIEMBA_AVAILABLE = FALSE
    /\ result = NoResult
    /\ scramble = NoScramble
    /\ state = NoState
    /\ threads = NoThreads
    /\ api = NoApi

\* cube.apply_move(move)
ApplyMove(h, move) ==
    /\ mem.cubes[h].live
    /\ Len(submitted[h]) < MaxSubmitted
    /\ mem' = apply_move(mem, h, move).mem
    /\ submitted' = [submitted EXCEPT ![h] = Append(@, move)]
    /\ returned' = [returned EXCEPT ![h] = Append(@, apply_move(mem, h, move).ret)]
    /\ UNCHANGED <<KOCIEMBA_AVAILABLE, result, locals>>

TokenLists == UNION {[1..k -> Tokens] : k \in 0..MaxSequence}

\* cube.apply_move_sequence(moves)
ApplyMoveSequence(h, moves) ==
    /\ mem.cubes[h].live
    /\ Len(submitted[h]) + Len(moves) <= MaxSubmitted
    /\ mem' = apply_move_sequence(mem, h, moves)
    /\ submitted' = [submitted EXCEPT ![h] = @ \o moves]
    /\ returned' = [returned EXCEPT ![h] = @ \o sequence_returns(mem, h, moves)]
    /\ UNCHANGED <<KOCIEMBA_AVAILABLE, result, locals>>

\* cube.reset()
Reset(h) ==
    /\ mem.cubes[h].live
    /\ mem' = reset(mem, h)
    /\ submitted' = [submitted EXCEPT ![h] = <<>>]
    /\ returned' = [returned EXCEPT ![h] = <<>>]
    /\ UNCHANGED <<KOCIEMBA_AVAILABLE, result, locals>>

Next ==
    \/ \E move \in Tokens : ApplyMove("cube", move)
    \/ \E moves \in TokenLists : ApplyMoveSequence("cube", moves)
    \/ Reset("cube")

Spec == Init /\ [][Next]_vars

\* the same cube driven by recognized tokens only: the sticker grids it reaches are the
\* grids Spec reaches, one state for each history
NextMoves == \E move \in Moves : ApplyMove("cube", move)

SpecMoves == Init /\ [][NextMoves]_vars

---------------------------------------------------------------------------
(* A cube and a copy taken of it *)

\* the tokens the two cubes are driven with
CloneTokens == {"U", "F'"}

\* new = h.clone(): the copy starts a log of its own
Clone(h, new) ==
    /\ mem.cubes[h].live
    /\ mem' = clone(mem, h, new)
    /\ submitted' = [submitted EXCEPT ![new] = <<>>]
    /\ returned' = [returned EXCEPT ![new] = <<>>]
    /\ UNCHANGED <<KOCIEMBA_AVAILABLE, result, locals>>

NextClone ==
    \/ \E move \in CloneTokens : ApplyMove("cube", move)
    \/ \E move \in CloneTokens : ApplyMove("clone", move)
    \/ Reset("cube")
    \/ Reset("clone")
    \/ Clone("cube", "clone")

SpecClone == Init /\ [][NextClone]_vars

---------------------------------------------------------------------------
(* The solving layer: src/cube_solver.py, class CubeSolver *)

\* the tokens of the model that end with a prime
PrimedTokens == {"U'", "R'", "F'", "D'", "L'", "B'", "M'"}

\* the tokens of the model that end with "2"
DoubleTokens == {"U2", "R2", "F2", "D2", "L2", "B2"}

\* move[0] of a primed token
FirstLetter(move) ==
    CASE move = "U'" -> "U"
      [] move = "R'" -> "R"
      [] move = "F'" -> "F"
      [] move = "D'" -> "D"
      [] move = "L'" -> "L"
      [] move = "B'" -> "B"
      [] move = "M'" -> "M"

\* CubeSolver._reverse_move
reverse_move(move) ==
    IF move \in PrimedTokens THEN FirstLetter(move)
    ELSE IF move \in DoubleTokens THEN move
    ELSE move \o "'"

\* self.algorithms keys
Algorithms == {"kociemba", "beginner", "reduction"}

\* the algorithm names a caller passes: the three known ones and an unknown one
AlgorithmNames == Algorithms \cup {"thistlethwaite"}

IsMove(token) == token \in Moves

RECURSIVE Concat(_)
\* the lists of a list of lists, one after the other
Concat(lists) == IF lists = <<>> THEN <<>> ELSE Head(lists) \o Concat(Tail(lists))

\* cube.is_solved()
cube_is_solved(m, h) == is_solved(FacesOf(m, h), SizeOf(m, h))

\* an undo that takes the history from its first entry to its last
reversed_history_first_to_last(m, h) ==
    With(HistoryOf(m, h), LAMBDA history :
        [i \in 1..Len(history) |-> reverse_move(history[i])])

\* for move in reversed(cube.move_history): self._reverse_move(move)
reversed_history(m, h) ==
    With(HistoryOf(m, h), LAMBDA history :
        [i \in 1..Len(history) |-> reverse_move(history[Len(history) + 1 - i])])

\* CubeSolver._solve_kociemba_fallback, lines 144-165: the while loop, from `attempts` on
RECURSIVE solving_attempts(_, _, _, _)
solving_attempts(m, h, moves, attempts) ==
    IF cube_is_solved(m, h) \/ attempts >= 20 THEN [mem |-> m, moves |-> moves]
    ELSE LET solving_sequences == << <<"R", "U", "R'", "U'">>,
                                     <<"F", "R", "U", "R'", "U'", "F'">>,
                                     <<"R", "U", "R'", "F", "R", "F'">>,
                                     <<"U", "R", "U'", "R'", "U'", "F", "R", "F'">> >>
             sequence == solving_sequences[(attempts % 4) + 1]
                            \o (IF attempts % 4 = 0 THEN <<"U">> ELSE <<>>)
         IN  With([mem |-> apply_move_sequence(m, h, sequence), moves |-> moves \o sequence],
                  LAMBDA tried : solving_attempts(tried.mem, h, tried.moves, attempts + 1))

\* CubeSolver._solve_kociemba_fallback: [mem, success, moves]
solve_kociemba_fallback(m, h) ==
    With(IF HistoryOf(m, h) # <<>> THEN reversed_history(m, h) ELSE <<>>, LAMBDA undo :
        With(apply_move_sequence(m, h, undo), LAMBDA undone :
            With(solving_attempts(undone, h, undo, 0), LAMBDA tried :
                IF cube_is_solved(tried.mem, h)
                THEN [mem |-> tried.mem, success |-> TRUE, moves |-> tried.moves]
                ELSE [mem |-> reset(tried.mem, h), success |-> TRUE,
                      moves |-> <<"Reset">>])))

\* the notation of the kociemba library: quarter turns and half turns
HalfTurnMoves == Moves \cup {"U2", "R2", "F2", "D2", "L2", "B2"}

\* the face a half-turn token names
HalfTurnFace(move) ==
    CASE move = "U2" -> "U" [] move = "R2" -> "R" [] move = "F2" -> "F"
      [] move = "D2" -> "D" [] move = "L2" -> "L" [] move = "B2" -> "B"

\* a token of the library's notation performed on the facelets
LibraryTurn(fs, move) ==
    IF move \in Moves THEN Turn(fs, 3, move)
    ELSE Turn(Turn(fs, 3, HalfTurnFace(move)), 3, HalfTurnFace(move))

RECURSIVE LibraryTurns(_, _)
LibraryTurns(fs, moves) ==
    IF moves = <<>> THEN fs ELSE LibraryTurns(LibraryTurn(fs, Head(moves)), Tail(moves))

\* the maneuvers of at most `depth` tokens that bring the facelets fs to the solved cube
Maneuvers(fs, depth) ==
    {moves \in UNION {[1..k -> HalfTurnMoves] : k \in 0..depth} :
        LibraryTurns(fs, moves) = NewFaces(3)}

\* kociemba.solve(cube_string), the library the module imports: on a string that is
\* not a 3x3 cube it raises or answers "Error"; on a 3x3 cube it answers a shortest
\* maneuver in its notation (the cube is `depth` turns from solved at most)
kociemba_solve(fs, n, depth) ==
    IF n # 3
    THEN {[raises |-> TRUE, solution |-> <<>>], [raises |-> FALSE, solution |-> <<"Error">>]}
    ELSE With(Maneuvers(fs, depth), LAMBDA found :
             {[raises |-> FALSE, solution |-> moves] :
                 moves \in {s \in found : \A t \in found : Len(s) <= Len(t)}})

\* no call of the library
NoAnswer == [raises |-> TRUE, solution |-> <<>>]

\* CubeSolver._solve_with_kociemba_library, answer being what kociemba.solve did
solve_with_kociemba_library(m, h, answer) ==
    IF answer.raises THEN solve_kociemba_fallback(m, h)
    ELSE IF answer.solution = <<"Error">> THEN [mem |-> m, success |-> FALSE, moves |-> <<>>]
    ELSE [mem |-> m, success |-> TRUE, moves |-> answer.solution]

\* CubeSolver._solve_kociemba
solve_kociemba(m, h, available, answer) ==
    IF available THEN solve_with_kociemba_library(m, h, answer)
    ELSE solve_kociemba_fallback(m, h)

\* CubeSolver._solve_bottom_cross_bruteforce: the tokens it submits and returns
solve_bottom_cross_bruteforce ==
    LET algorithms == << <<"F", "D", "R", "F'", "D'">>,
                         <<"R", "D'", "F", "D", "R'">>,
                         <<"D", "R", "U", "R'", "D'">>,
                         <<"F", "U", "F'", "D", "F", "D'">> >>
    IN  Concat([attempt \in 1..8 |->
            Concat(algorithms) \o <<"D">>
                \o (IF (attempt - 1) % 2 = 0 THEN <<"U">> ELSE <<>>)])

\* CubeSolver._solve_bottom_corners_bruteforce
solve_bottom_corners_bruteforce ==
    LET algorithms == << <<"R", "D", "R'", "D'">>,
                         <<"F", "D", "F'", "D'">>,
                         <<"R", "D2", "R'", "D'">>,
                         <<"L'", "D'", "L", "D">> >>
    IN  Concat([attempt \in 1..12 |->
            Concat(algorithms) \o (IF (attempt - 1) % 3 = 0 THEN <<"D">> ELSE <<>>)])

\* CubeSolver._solve_middle_layer_bruteforce
solve_middle_layer_bruteforce ==
    LET right_hand == <<"U", "R", "U'", "R'", "U'", "F'", "U", "F">>
        left_hand == <<"U'", "L'", "U", "L", "U", "F", "U'", "F'">>
    IN  Concat([attempt \in 1..8 |->
            (IF (attempt - 1) % 2 = 0 THEN right_hand ELSE left_hand) \o <<"U">>])

\* _solve_top_cross_bruteforce with a loop of sixty rounds in place of six
solve_top_cross_bruteforce_sixty_rounds ==
    LET oll_alg == <<"F", "R", "U", "R'", "U'", "F'">>
    IN  Concat([attempt \in 1..60 |-> oll_alg \o <<"U">>])

\* CubeSolver._solve_top_cross_bruteforce
solve_top_cross_bruteforce ==
    LET oll_alg == <<"F", "R", "U", "R'", "U'", "F'">>
    IN  Concat([attempt \in 1..6 |-> oll_alg \o <<"U">>])

\* CubeSolver._orient_top_corners_bruteforce
orient_top_corners_bruteforce ==
    LET sune == <<"R", "U", "R'", "U", "R", "U2", "R'">>
        antisune == <<"R", "U2", "R'", "U'", "R", "U'", "R'">>
    IN  Concat([attempt \in 1..8 |->
            (IF (attempt - 1) % 2 = 0 THEN sune ELSE antisune) \o <<"U">>])

\* CubeSolver._permute_top_corners_bruteforce
permute_top_corners_bruteforce ==
    LET t_perm == <<"R", "U", "R'", "F'", "R", "U", "R'", "U'", "R'", "F", "R2", "U'", "R'">>
    IN  Concat([attempt \in 1..4 |-> t_perm \o <<"U">>])

\* CubeSolver._permute_top_edges_bruteforce
permute_top_edges_bruteforce ==
    LET u_perm == <<"R", "U'", "R", "U", "R", "U", "R", "U'", "R'", "U'", "R2">>
        h_perm == <<"R2", "U2", "R", "U2", "R2", "U2", "R2", "U2", "R", "U2", "R2">>
    IN  Concat([attempt \in 1..6 |->
            (IF (attempt - 1) % 2 = 0 THEN u_perm ELSE h_perm) \o <<"U">>])

\* CubeSolver._beginner_fallback and CubeSolver._reduction_fallback (the same code):
\* [mem, moves]
history_fallback(m, h) ==
    IF HistoryOf(m, h) # <<>>
    THEN With(reversed_history(m, h), LAMBDA undo :
             [mem |-> apply_move_sequence(m, h, undo), moves |-> undo])
    ELSE [mem |-> reset(m, h), moves |-> <<"Reset">>]

\* the tail shared by _solve_beginner and _solve_reduction: the cube after the canned
\* moves, then `if not cube.is_solved()` the fallback
finish_with_fallback(m, h, moves) ==
    With(apply_move_sequence(m, h, moves), LAMBDA after :
        IF cube_is_solved(after, h)
        THEN [mem |-> after, success |-> TRUE, moves |-> moves]
        ELSE With(history_fallback(after, h), LAMBDA fallback :
                 [mem |-> fallback.mem, success |-> TRUE,
                  moves |-> moves \o fallback.moves]))

\* CubeSolver._solve_beginner
solve_beginner(m, h) ==
    With(solve_bottom_cross_bruteforce \o solve_bottom_corners_bruteforce
            \o solve_middle_layer_bruteforce \o solve_top_cross_bruteforce
            \o orient_top_corners_bruteforce \o permute_top_corners_bruteforce
            \o permute_top_edges_bruteforce,
         LAMBDA moves : finish_with_fallback(m, h, moves))

\* `if cube.apply_move(move): moves.append(move)` over the tokens of the rounds, with the
\* U of each round appended unconditionally: the tokens apply_move accepted
Accepted(rounds) == SelectSeq(Concat(rounds), IsMove)

\* CubeSolver._solve_4x4_centers (_adapt_move_for_4x4 returns its argument)
solve_4x4_centers ==
    LET algorithms == << <<"M", "U", "M'", "U2", "M", "U", "M'">>,
                         <<"R", "U", "R'", "F", "R", "F'">>,
                         <<"L'", "U'", "L", "F'", "L'", "F">> >>
    IN  Accepted([attempt \in 1..10 |->
            Concat(algorithms) \o (IF (attempt - 1) % 3 = 0 THEN <<"U">> ELSE <<>>)])

\* CubeSolver._solve_4x4_edges
solve_4x4_edges ==
    LET pairing_algs == << <<"R", "U'", "R'", "F", "R", "F'">>,
                           <<"L'", "U", "L", "F'", "L'", "F">>,
                           <<"F", "R", "U'", "R'", "F'">> >>
    IN  Accepted([attempt \in 1..12 |-> Concat(pairing_algs) \o <<"U">>])

\* CubeSolver._solve_5x5_centers
solve_5x5_centers ==
    LET center_algs == << <<"R", "U", "R'", "U'", "R'", "F", "R", "F'">>,
                          <<"L'", "U'", "L", "U", "L", "F'", "L'", "F">>,
                          <<"F", "R", "U", "R'", "U'", "F'">> >>
    IN  Accepted([attempt \in 1..15 |->
            Concat(center_algs) \o (IF (attempt - 1) % 4 = 0 THEN <<"U">> ELSE <<>>)])

\* CubeSolver._solve_5x5_edges
solve_5x5_edges ==
    LET edge_algs == << <<"R", "U", "R'", "F", "R", "F'", "U'", "R", "U", "R'">>,
                        <<"L'", "U'", "L", "F'", "L'", "F", "U", "L'", "U'", "L">> >>
    IN  Accepted([attempt \in 1..18 |-> Concat(edge_algs) \o <<"U">>])

Min(a, b) == IF a < b THEN a ELSE b

\* CubeSolver._solve_nxn_centers
solve_nxn_centers(size) ==
    LET basic_algs == << <<"R", "U", "R'", "F", "R", "F'">>,
                         <<"L'", "U'", "L", "F'", "L'", "F">>,
                         <<"F", "U", "F'", "R", "U", "R'">>,
                         <<"U", "R", "U'", "R'">> >>
        attempts == Min(25, size * 5)
    IN  Accepted([attempt \in 1..attempts |->
            Concat(basic_algs) \o (IF (attempt - 1) % 5 = 0 THEN <<"U">> ELSE <<>>)])

\* CubeSolver._solve_nxn_edges
solve_nxn_edges(size) ==
    LET edge_algs == << <<"R", "U'", "R'", "F", "R", "F'", "R", "U", "R'">>,
                        <<"L'", "U", "L", "F'", "L'", "F", "L'", "U'", "L">>,
                        <<"F", "R", "U", "R'", "U'", "F'">> >>
        attempts == Min(30, size * 6)
    IN  Accepted([attempt \in 1..attempts |-> Concat(edge_algs) \o <<"U">>])

\* CubeSolver._solve_as_3x3
solve_as_3x3 ==
    LET basic_3x3_algs ==
            << <<"R", "U", "R'", "U'">>,
               <<"F", "R", "U", "R'", "U'", "F'">>,
               <<"R", "U", "R'", "F'", "R", "U", "R'", "U'", "R'", "F", "R2", "U'", "R'">> >>
    IN  Accepted([attempt \in 1..20 |-> Concat(basic_3x3_algs) \o <<"U">>])

\* CubeSolver._solve_4x4_reduction, _solve_5x5_reduction, _solve_nxn_reduction: the moves
\* they extend `moves` with
reduction_moves(size) ==
    IF size = 4 THEN solve_4x4_centers \o solve_4x4_edges
    ELSE IF size = 5 THEN solve_5x5_centers \o solve_5x5_edges
    ELSE solve_nxn_centers(size) \o solve_nxn_edges(size)

\* CubeSolver._solve_reduction
solve_reduction(m, h) ==
    With(reduction_moves(SizeOf(m, h)) \o solve_as_3x3,
         LAMBDA moves : finish_with_fallback(m, h, moves))

\* working_cube goes out of scope when solve returns
discard(m, h) ==
    [m EXCEPT !.cubes[h] = NoCube,
              !.faces[m.cubes[h].faces] = NoFaces,
              !.hist[m.cubes[h].move_history] = <<>>]

\* whether solve(cube, algorithm) reaches kociemba.solve
calls_library(m, cube, algorithm, available) ==
    /\ ~cube_is_solved(m, cube)
    /\ algorithm = "kociemba"
    /\ SizeOf(m, cube) <= 3
    /\ available

\* an auto-switch that does not look at the name: every cube above size 3 is reduced
selected_algorithm_any_name(m, cube, algorithm) ==
    IF SizeOf(m, cube) > 3 THEN "reduction" ELSE algorithm

\* CubeSolver.solve, lines 52-67: the algorithm selected for the cube
selected_algorithm(m, cube, algorithm) ==
    IF SizeOf(m, cube) > 3 /\ algorithm = "kociemba" THEN "reduction" ELSE algorithm

\* CubeSolver.solve, lines 64-67: working_cube = cube.clone() and the selected algorithm
\* run on it: [mem, success, moves], working_cube as the algorithm left it
solve_working_cube(m, cube, selected, available, answer) ==
    With(clone(m, cube, "working_cube"), LAMBDA working :
        CASE selected = "kociemba" ->
                 solve_kociemba(working, "working_cube", available, answer)
          [] selected = "beginner" -> solve_beginner(working, "working_cube")
          [] selected = "reduction" -> solve_reduction(working, "working_cube"))

\* a solve without the check of lines 41-49: a solved cube goes to the algorithm too
solve_without_solved_check(m, cube, algorithm, available, answer) ==
    LET selected == selected_algorithm(m, cube, algorithm)
    IN  IF selected \notin Algorithms
        THEN [mem |-> m, success |-> FALSE, moves |-> <<>>]
        ELSE With(solve_working_cube(m, cube, selected, available, answer),
                  LAMBDA found :
             With(IF found.success /\ found.moves # <<>>
                  THEN apply_move_sequence(found.mem, cube, found.moves)
                  ELSE found.mem,
                  LAMBDA replayed :
                      [mem |-> discard(replayed, "working_cube"),
                       success |-> found.success, moves |-> found.moves]))

\* CubeSolver.solve: [mem, success, moves]
solve(m, cube, algorithm, available, answer) ==
    IF cube_is_solved(m, cube) THEN [mem |-> m, success |-> TRUE, moves |-> <<>>]
    ELSE LET selected == selected_algorithm(m, cube, algorithm)
         IN  IF selected \notin Algorithms
             THEN [mem |-> m, success |-> FALSE, moves |-> <<>>]
             ELSE With(solve_working_cube(m, cube, selected, available, answer),
                       LAMBDA found :
                  With(IF found.success /\ found.moves # <<>>
                       THEN apply_move_sequence(found.mem, cube, found.moves)
                       ELSE found.mem,
                       LAMBDA replayed :
                           [mem |-> discard(replayed, "working_cube"),
                            success |-> found.success, moves |-> found.moves]))

\* the turns a cube is scrambled with before it is handed to the solver
ScrambleMoves == {"R", "U'"}

\* the module is imported with or without the library installed; a cube is constructed
InitSolve ==
    /\ \E size \in Sizes : mem = construct(EmptyMem, "cube", size)
    /\ submitted = NoLog
    /\ returned = NoLog
    /\ KOCIEMBA_AVAILABLE \in BOOLEAN
    /\ result = NoResult
    /\ scramble = NoScramble
    /\ state = NoState
    /\ threads = NoThreads
    /\ api = NoApi

\* cube.apply_move(move) before the solver is called
Scramble(move) ==
    /\ ~result.called
    /\ ApplyMove("cube", move)

\* what kociemba.solve can do in solve(cube, algorithm): the cube is at most as many
\* turns from solved as its history is long
library_answers(m, cube, algorithm, available) ==
    IF calls_library(m, cube, algorithm, available)
    THEN kociemba_solve(FacesOf(m, cube), SizeOf(m, cube), Len(HistoryOf(m, cube)))
    ELSE {NoAnswer}

\* result = solver.solve(cube, algorithm), once per run; the tokens solve replays on cube
\* are logged as submitted to it
Solve(algorithm) ==
    /\ ~result.called
    /\ \E answer \in library_answers(mem, "cube", algorithm, KOCIEMBA_AVAILABLE) :
          \E out \in {solve(mem, "cube", algorithm, KOCIEMBA_AVAILABLE, answer)} :
              /\ mem' = out.mem
              /\ result' = [called |-> TRUE, success |-> out.success, moves |-> out.moves]
              /\ submitted' = [submitted EXCEPT !["cube"] =
                                  IF out.success THEN @ \o out.moves ELSE @]
              /\ returned' = [returned EXCEPT !["cube"] =
                                  IF out.success
                                  THEN @ \o [i \in 1..Len(out.moves) |-> IsMove(out.moves[i])]
                                  ELSE @]
    /\ UNCHANGED <<KOCIEMBA_AVAILABLE, locals>>

NextSolve ==
    \/ \E move \in ScrambleMoves : Scramble(move)
    \/ \E algorithm \in AlgorithmNames : Solve(algorithm)

SpecSolve == InitSolve /\ [][NextSolve]_vars

---------------------------------------------------------------------------
(* A cube driven by whole four-token sequences *)

\* bound on the number of sequences applied in a row
MaxRounds == 6

\* R U R' U' and its mirror image
Rounds == {<<"R", "U", "R'", "U'">>, <<"L'", "U'", "L", "U">>}

\* cube.apply_move_sequence(round)
ApplyRound(round) ==
    /\ Len(submitted["cube"]) < Len(round) * MaxRounds
    /\ mem' = apply_move_sequence(mem, "cube", round)
    /\ submitted' = [submitted EXCEPT !["cube"] = @ \o round]
    /\ returned' = [returned EXCEPT !["cube"] = @ \o sequence_returns(mem, "cube", round)]
    /\ UNCHANGED <<KOCIEMBA_AVAILABLE, result, locals>>

NextRounds == \E round \in Rounds : ApplyRound(round)

SpecRounds == Init /\ [][NextRounds]_vars

---------------------------------------------------------------------------
(* A cube driven by apply_move_sequence alone, with lists of MaxSequence tokens *)

NextSequence ==
    \/ \E moves \in TokenLists : Len(moves) = MaxSequence /\ ApplyMoveSequence("cube", moves)
    \/ Reset("cube")

SpecSequence == Init /\ [][NextSequence]_vars

---------------------------------------------------------------------------
(* A cube that is turned and reset, the tokens submitted since construction logged *)

\* cube.reset(); the log keeps what was submitted before the call
ResetCall(h) ==
    /\ mem.cubes[h].live
    /\ mem' = reset(mem, h)
    /\ UNCHANGED <<submitted, returned, KOCIEMBA_AVAILABLE, result, locals>>

NextReset ==
    \/ \E move \in Tokens : ApplyMove("cube", move)
    \/ ResetCall("cube")

SpecReset == Init /\ [][NextReset]_vars

---------------------------------------------------------------------------
(* A cube whose stickers are also written from outside: faces is a public attribute *)

\* the values written from outside: the six colors and a value that is no color
StickerValues == Colors \cup {"X"}

\* the stickers written from outside: a corner of Up, a corner of Front, the reference
\* sticker of Right
WrittenStickers(n) == {<<"U", 0, 0>>, <<"F", 0, n - 1>>, <<"R", n \div 2, n \div 2>>}

\* cube.faces[face][r][c] = value, by code outside the class
Overwrite(h, sticker, value) ==
    /\ mem.cubes[h].live
    /\ mem' = [mem EXCEPT !.faces[mem.cubes[h].faces][sticker[1]][sticker[2]][sticker[3]] = value]
    /\ UNCHANGED <<submitted, returned, KOCIEMBA_AVAILABLE, result, locals>>

NextCorrupt ==
    \E sticker \in WrittenStickers(SizeOf(mem, "cube")) : \E value \in StickerValues :
        Overwrite("cube", sticker, value)

SpecCorrupt == Init /\ [][NextCorrupt]_vars

---------------------------------------------------------------------------
(* Scrambles: RubiksCube.generate_scramble *)

\* bound on the length asked for
MaxScramble == 2

\* the lengths a caller passes: negative, zero and positive
Lengths == (0 - 1)..MaxScramble

\* move[0] of one of the twelve tokens
Letter(move) == IF move \in PrimedTokens THEN FirstLetter(move) ELSE move

\* range(length) has max(length, 0) iterations
Iterations(length) == IF length <= 0 THEN 0 ELSE length

\* a generate_scramble whose every draw is from the whole list `moves`
generate_scramble_unfiltered(length) == [1..Iterations(length) -> Moves]

\* the loop of generate_scramble with `left` iterations to go: each iteration draws
\* random.choice(available_moves), any element of the list
RECURSIVE scramble_loop(_, _, _)
scramble_loop(left, scramble_so_far, last_face) ==
    IF left = 0 THEN {scramble_so_far}
    ELSE LET available_moves == {m \in Moves : Letter(m) # last_face}
         IN  UNION {scramble_loop(left - 1, Append(scramble_so_far, move), Letter(move)) :
                       move \in available_moves}

\* RubiksCube.generate_scramble: the lists it can return
generate_scramble(length) == scramble_loop(Iterations(length), <<>>, "")

\* a generate_scramble that turns the cube with each token it draws
GenerateScrambleApplied(h, length) ==
    /\ mem.cubes[h].live
    /\ ~scramble.called
    /\ \E moves \in generate_scramble(length) :
          /\ scramble' = [called |-> TRUE, length |-> length, moves |-> moves]
          /\ mem' = apply_move_sequence(mem, h, moves)
    /\ UNCHANGED <<submitted, returned, KOCIEMBA_AVAILABLE, result, state, threads, api>>

\* scramble = cube.generate_scramble(length), once per run
GenerateScramble(h, length) ==
    /\ mem.cubes[h].live
    /\ ~scramble.called
    /\ \E moves \in generate_scramble(length) :
          scramble' = [called |-> TRUE, length |-> length, moves |-> moves]
    /\ UNCHANGED <<mem, submitted, returned, KOCIEMBA_AVAILABLE, result, state, threads, api>>

NextScramble ==
    \/ \E length \in Lengths : GenerateScramble("cube", length)
    \/ \E move \in CloneTokens : ApplyMove("cube", move)

SpecScramble == Init /\ [][NextScramble]_vars

---------------------------------------------------------------------------
(* The state query: RubiksCube.get_state *)

\* color_map.get(color, color.lower())
color_name(color) ==
    CASE color = "W" -> "white"
      [] color = "R" -> "red"
      [] color = "G" -> "green"
      [] color = "Y" -> "yellow"
      [] color = "O" -> "orange"
      [] color = "B" -> "blue"
      [] color = "X" -> "x"

\* a flatten_face that walks the grid column by column
flatten_face_by_columns(face, n) ==
    [k \in 1..(n * n) |-> color_name(face[(k - 1) % n][(k - 1) \div n])]

\* flatten_face: [name(color) for row in face for color in row]; element k of the
\* Python list is element k + 1 here
flatten_face(face, n) ==
    [k \in 1..(n * n) |-> color_name(face[(k - 1) \div n][(k - 1) % n])]

\* RubiksCube.get_state
get_state(m, h) ==
    [front  |-> flatten_face(FacesOf(m, h)["F"], SizeOf(m, h)),
     back   |-> flatten_face(FacesOf(m, h)["B"], SizeOf(m, h)),
     left   |-> flatten_face(FacesOf(m, h)["L"], SizeOf(m, h)),
     right  |-> flatten_face(FacesOf(m, h)["R"], SizeOf(m, h)),
     top    |-> flatten_face(FacesOf(m, h)["U"], SizeOf(m, h)),
     bottom |-> flatten_face(FacesOf(m, h)["D"], SizeOf(m, h)),
     size   |-> SizeOf(m, h)]

\* RubiksCube.get_move_count
get_move_count(m, h) == Len(HistoryOf(m, h))

\* 'state': cube.get_state(), 'move_count': cube.get_move_count()
GetState(h) ==
    /\ mem.cubes[h].live
    /\ state' = [called |-> TRUE, value |-> get_state(mem, h),
                 move_count |-> get_move_count(mem, h)]
    /\ UNCHANGED <<mem, submitted, returned, KOCIEMBA_AVAILABLE, result, scramble, threads, api>>

NextState ==
    \/ \E move \in Moves : ApplyMove("cube", move)
    \/ GetState("cube")

SpecState == Init /\ [][NextState]_vars

---------------------------------------------------------------------------
(* apply_move run by concurrent callers, one read or write of shared data at a time *)

\* the sizes and the moves of the concurrent calls
ThreadSizes == {2, 3}
ThreadMoves == {"R", "U"}

\* how the callers come to their cubes: both hold the one cube and call freely, both
\* hold the one cube and the host lets one call run at a time, or each holds a clone
Sharings == {"shared", "serialized", "clones"}

\* one access of a call: op names what is read or written, face/r/c the sticker or row of
\* self.faces, i/j the cell of the caller's copy of the grid, k the index into temp
Access(op, face, r, c, i, j, k) ==
    [op |-> op, face |-> face, r |-> r, c |-> c, i |-> i, j |-> j, k |-> k]

\* RubiksCube.rotate_face_clockwise: temp = [row[:] for row in f], one row copied at a
\* time, then f[j][n-1-i] = temp[i][j] for i, j in loop order
rotate_face_clockwise_accesses(face, n) ==
    [x \in 1..n |-> Access("copy_row", face, x - 1, 0, 0, 0, 0)]
    \o [x \in 1..(n * n) |->
           Access("write_rotated", face, (x - 1) % n, n - 1 - ((x - 1) \div n),
                  (x - 1) \div n, (x - 1) % n, 0)]

\* RubiksCube._move_R after the rotation: temp = [U[i][n-1] for i in range(n)], then the
\* four assignments of each iteration, a read of shared data and the write that follows
\* it being separate accesses
move_R_accesses(n) ==
    [x \in 1..n |-> Access("read_temp", "U", x - 1, n - 1, 0, 0, x - 1)]
    \o Concat([x \in 1..n |->
          << Access("read", "F", x - 1, n - 1, 0, 0, 0),
             Access("write", "U", x - 1, n - 1, 0, 0, 0),
             Access("read", "D", x - 1, n - 1, 0, 0, 0),
             Access("write", "F", x - 1, n - 1, 0, 0, 0),
             Access("read", "B", n - 1 - (x - 1), 0, 0, 0, 0),
             Access("write", "D", x - 1, n - 1, 0, 0, 0),
             Access("write_temp", "B", n - 1 - (x - 1), 0, 0, 0, x - 1) >>])

\* RubiksCube._move_U after the rotation: temp = F[0][:], then three rows copied and
\* stored and temp stored; a row is read and stored whole
move_U_accesses(n) ==
    << Access("read_temp_row", "F", 0, 0, 0, 0, 0),
       Access("read_row", "R", 0, 0, 0, 0, 0), Access("write_row", "F", 0, 0, 0, 0, 0),
       Access("read_row", "B", 0, 0, 0, 0, 0), Access("write_row", "R", 0, 0, 0, 0, 0),
       Access("read_row", "L", 0, 0, 0, 0, 0), Access("write_row", "B", 0, 0, 0, 0, 0),
       Access("write_temp_row", "L", 0, 0, 0, 0, 0) >>

\* RubiksCube.apply_move(move) for the moves of the concurrent calls: the accesses of
\* _move_X in program order, then self.move_history.append(move)
apply_move_accesses(move, n) ==
    (CASE move = "R" -> rotate_face_clockwise_accesses("R", n) \o move_R_accesses(n)
       [] move = "U" -> rotate_face_clockwise_accesses("U", n) \o move_U_accesses(n))
    \o << Access("append", "U", 0, 0, 0, 0, 0) >>

\* the faces after one access a by a caller holding the locals `own`
faces_after(fs, own, a) ==
    CASE a.op = "write_rotated" -> [fs EXCEPT ![a.face][a.r][a.c] = own.temp_face[a.i][a.j]]
      [] a.op = "write" -> [fs EXCEPT ![a.face][a.r][a.c] = own.value]
      [] a.op = "write_temp" -> [fs EXCEPT ![a.face][a.r][a.c] = own.temp[a.k]]
      [] a.op = "write_row" -> [fs EXCEPT ![a.face][a.r] = own.value]
      [] a.op = "write_temp_row" -> [fs EXCEPT ![a.face][a.r] = own.temp]
      [] OTHER -> fs

\* the locals of the caller after the access
locals_after(fs, own, a) ==
    CASE a.op = "copy_row" ->
             [own EXCEPT !.temp_face = [r \in 0..a.r |->
                                           IF r = a.r THEN fs[a.face][r] ELSE own.temp_face[r]]]
      [] a.op = "read_temp" ->
             [own EXCEPT !.temp = [k \in 0..a.k |->
                                      IF k = a.k THEN fs[a.face][a.r][a.c] ELSE own.temp[k]]]
      [] a.op = "read_temp_row" -> [own EXCEPT !.temp = fs[a.face][a.r]]
      [] a.op = "read" -> [own EXCEPT !.value = fs[a.face][a.r][a.c]]
      [] a.op = "read_row" -> [own EXCEPT !.value = fs[a.face][a.r]]
      [] OTHER -> own

\* the other caller
Other(t) == CHOOSE u \in Threads : u # t

\* the callers are set up: one cube, or a cube and its clone
InitThreads ==
    /\ \E size \in ThreadSizes : \E sharing \in Sharings :
          /\ mem = IF sharing = "clones"
                   THEN clone(construct(EmptyMem, "cube", size), "cube", "clone")
                   ELSE construct(EmptyMem, "cube", size)
          /\ threads = [sharing |-> sharing,
                        of |-> [t \in Threads |->
                                   [Idle EXCEPT !.cube = IF sharing = "clones" /\ t = 2
                                                         THEN "clone" ELSE "cube"]]]
    /\ submitted = NoLog
    /\ returned = NoLog
    /\ KOCIEMBA_AVAILABLE = FALSE
    /\ result = NoResult
    /\ scramble = NoScramble
    /\ state = NoState
    /\ api = NoApi

\* caller t enters cube.apply_move(move); a serializing host waits for the call in flight
Call(t, move) ==
    /\ threads.of[t].status = "idle"
    /\ threads.sharing = "serialized" => threads.of[Other(t)].status # "running"
    /\ threads' = [threads EXCEPT !.of[t].status = "running", !.of[t].move = move,
                                  !.of[t].pc = 1]
    /\ submitted' = [submitted EXCEPT ![threads.of[t].cube] = Append(@, move)]
    /\ UNCHANGED <<mem, returned, KOCIEMBA_AVAILABLE, result, scramble, state, api>>

\* caller t makes the next access of its call; after the append the call returns True
Step(t) ==
    /\ threads.of[t].status = "running"
    /\ \E own \in {threads.of[t]} : \E h \in {threads.of[t].cube} :
       \E accesses \in {apply_move_accesses(own.move, SizeOf(mem, h))} :
       \E a \in {accesses[own.pc]} :
          /\ mem' = IF a.op = "append"
                    THEN [mem EXCEPT !.hist[mem.cubes[h].move_history] = Append(@, own.move)]
                    ELSE [mem EXCEPT !.faces[mem.cubes[h].faces] = faces_after(@, own, a)]
          /\ threads' = [threads EXCEPT !.of[t] =
                            [locals_after(FacesOf(mem, h), own, a) EXCEPT
                                !.pc = own.pc + 1,
                                !.status = IF own.pc = Len(accesses)
                                           THEN "returned" ELSE "running"]]
          /\ returned' = IF own.pc = Len(accesses)
                         THEN [returned EXCEPT ![h] = Append(@, TRUE)] ELSE returned
    /\ UNCHANGED <<submitted, KOCIEMBA_AVAILABLE, result, scramble, state, api>>

NextThreads ==
    \/ \E t \in Threads : \E move \in ThreadMoves : Call(t, move)
    \/ \E t \in Threads : Step(t)

SpecThreads == InitThreads /\ [][NextThreads]_vars

---------------------------------------------------------------------------
(* The engine on cubes of any size from 1 up, the admitted range aside *)

\* the largest size the engine is constructed with here, one above the admitted range
MaxAnySize == 8

AnySizes == 1..MaxAnySize

\* a model of the subscripts in which the mirrored subscript is written n-i
list_indices_mirrored_from_n(operation, n) ==
    LET range == 0..(n - 1)
    IN  UNION {{i, j, n - i, n - j} : <<i, j>> \in range \X range} \cup {0, n - 1, n \div 2}

\* the integers the operation subscripts a face grid, a row or temp with, on a cube of
\* size n: i and j run over range(n)
list_indices(operation, n) ==
    LET range == 0..(n - 1)
        clockwise == UNION {{j, n - 1 - i, i} : <<i, j>> \in range \X range}
        counterclockwise == UNION {{n - 1 - j, i, j} : <<i, j>> \in range \X range}
        column == UNION {{i, n - 1, n - 1 - i, 0} : i \in range}
    IN  CASE operation = "U"  -> clockwise \cup {0}
          [] operation = "U'" -> counterclockwise \cup {0}
          [] operation = "R"  -> clockwise \cup column
          [] operation = "R'" -> counterclockwise \cup column
          [] operation = "F"  -> clockwise \cup column
          [] operation = "F'" -> counterclockwise \cup column
          [] operation = "D"  -> clockwise \cup {n - 1}
          [] operation = "D'" -> counterclockwise \cup {n - 1}
          [] operation = "L"  -> clockwise \cup column
          [] operation = "L'" -> counterclockwise \cup column
          [] operation = "B"  -> clockwise \cup column
          [] operation = "B'" -> counterclockwise \cup column
          [] operation = "is_solved" -> {n \div 2}

\* RubiksCube(size) for any size from 1 up
InitSizes ==
    /\ \E size \in AnySizes : mem = construct(EmptyMem, "cube", size)
    /\ submitted = NoLog
    /\ returned = NoLog
    /\ KOCIEMBA_AVAILABLE = FALSE
    /\ result = NoResult
    /\ scramble = NoScramble
    /\ state = NoState
    /\ threads = NoThreads
    /\ api = NoApi

\* each of the twelve moves on the fresh cube, and the clone's tokens after it
SizesMove(move) ==
    /\ HistoryOf(mem, "cube") = <<>> \/ move \in CloneTokens
    /\ ApplyMove("cube", move)

\* one query or copy per run: get_state or clone in any state, generate_scramble on the
\* fresh cube
SizesQuery ==
    /\ ~state.called
    /\ ~scramble.called
    /\ ~mem.cubes["clone"].live
    /\ \/ GetState("cube")
       \/ Clone("cube", "clone")
       \/ /\ HistoryOf(mem, "cube") = <<>>
          /\ \E length \in {0 - 1, 0, 1} : GenerateScramble("cube", length)

\* cube.reset() after the last move of the run
SizesReset ==
    /\ Len(submitted["cube"]) = MaxSubmitted
    /\ HistoryOf(mem, "cube") # <<>>
    /\ ResetCall("cube")

NextSizes ==
    \/ \E move \in Moves : SizesMove(move)
    \/ \E moves \in [1..MaxSequence -> CloneTokens] : ApplyMoveSequence("cube", moves)
    \/ SizesReset
    \/ SizesQuery

SpecSizes == InitSizes /\ [][NextSizes]_vars

---------------------------------------------------------------------------
(* The request handlers of app.py on the module-level cube *)

\* the sizes requests ask for: below the range, its two ends, above it
RequestSizes == {MinSize - 1, MinSize, MaxSize, MaxSize + 1}

\* cube = RubiksCube(3); solver = CubeSolver(): the server has started
InitApi ==
    /\ mem = construct(EmptyMem, "cube", 3)
    /\ submitted = NoLog
    /\ returned = NoLog
    /\ KOCIEMBA_AVAILABLE \in BOOLEAN
    /\ result = NoResult
    /\ scramble = NoScramble
    /\ state = NoState
    /\ threads = NoThreads
    /\ \E serialized \in BOOLEAN : api = [NoApi EXCEPT !.serialized = serialized]

\* the host lets a request in: always, or when it serializes them, only while no
\* /api/solve handler is between its first and last statement
Admitted == api.serialized => api.pc \in {"idle", "done"}

\* 'state': cube.get_state(), 'move_count': cube.get_move_count() of a response
state_of(m) == [called |-> TRUE, value |-> get_state(m, "cube"),
                move_count |-> get_move_count(m, "cube")]

\* the requests that wrote the shared cube while the /api/solve handler was between its
\* clone and its replay
noted(endpoint) ==
    IF api.pc \in {"cloned", "solved"} THEN api.between \cup {endpoint} ELSE api.between

\* a create_new_cube that constructs the cube before it looks at the size
NewCubeConstructsFirst(size) ==
    /\ Admitted
    /\ mem' = construct(mem, "cube", size)
    /\ submitted' = [submitted EXCEPT !["cube"] = <<>>]
    /\ returned' = [returned EXCEPT !["cube"] = <<>>]
    /\ state' = state_of(mem')
    /\ api' = [api EXCEPT !.between = noted("new-cube"),
                          !.response = [endpoint |-> "new-cube", argument |-> size,
                                        status |-> IF size < 2 \/ size > 7 THEN 400 ELSE 200,
                                        success |-> ~(size < 2 \/ size > 7)]]
    /\ UNCHANGED <<KOCIEMBA_AVAILABLE, result, scramble, threads>>

\* POST /api/new-cube with {'size': size}: create_new_cube
NewCube(size) ==
    /\ Admitted
    /\ IF size < 2 \/ size > 7
       THEN /\ api' = [api EXCEPT !.response = [endpoint |-> "new-cube", argument |-> size,
                                                status |-> 400, success |-> FALSE]]
            /\ UNCHANGED <<mem, submitted, returned, state>>
       ELSE /\ mem' = construct(mem, "cube", size)
            /\ submitted' = [submitted EXCEPT !["cube"] = <<>>]
            /\ returned' = [returned EXCEPT !["cube"] = <<>>]
            /\ state' = state_of(mem')
            /\ api' = [api EXCEPT !.between = noted("new-cube"),
                                  !.response = [endpoint |-> "new-cube", argument |-> size,
                                                status |-> 200, success |-> TRUE]]
    /\ UNCHANGED <<KOCIEMBA_AVAILABLE, result, scramble, threads>>

\* POST /api/move with {'move': move}: execute_move
ExecuteMove(move) ==
    /\ Admitted
    /\ Len(submitted["cube"]) < MaxSubmitted
    /\ IF move = ""
       THEN /\ api' = [api EXCEPT !.response = [endpoint |-> "move", argument |-> move,
                                                status |-> 400, success |-> FALSE]]
            /\ UNCHANGED <<mem, submitted, returned, state>>
       ELSE \E out \in {apply_move(mem, "cube", move)} :
            /\ mem' = out.mem
            /\ submitted' = [submitted EXCEPT !["cube"] = Append(@, move)]
            /\ returned' = [returned EXCEPT !["cube"] = Append(@, out.ret)]
            /\ state' = state_of(out.mem)
            /\ api' = [api EXCEPT !.between = noted("move"),
                                  !.response = [endpoint |-> "move", argument |-> move,
                                                status |-> 200, success |-> out.ret]]
    /\ UNCHANGED <<KOCIEMBA_AVAILABLE, result, scramble, threads>>

\* POST /api/reset: reset_cube
ResetRequest ==
    /\ Admitted
    /\ mem' = reset(mem, "cube")
    /\ submitted' = [submitted EXCEPT !["cube"] = <<>>]
    /\ returned' = [returned EXCEPT !["cube"] = <<>>]
    /\ state' = state_of(mem')
    /\ api' = [api EXCEPT !.between = noted("reset"),
                          !.response = [endpoint |-> "reset", argument |-> "",
                                        status |-> 200, success |-> TRUE]]
    /\ UNCHANGED <<KOCIEMBA_AVAILABLE, result, scramble, threads>>

\* the server answering /api/new-cube and /api/move requests
NextNewCube ==
    \/ \E size \in RequestSizes : NewCube(size)
    \/ \E move \in Moves \cup {""} : ExecuteMove(move)

SpecNewCube == InitApi /\ [][NextNewCube]_vars

---------------------------------------------------------------------------
(* A cube and a copy of it driven by every operation that writes stickers or history *)

\* the tokens of the sequences: those of the clone and an unrecognized one
HistoryTokens == CloneTokens \cup {"F2"}

NextHistory ==
    \/ \E move \in CloneTokens : ApplyMove("cube", move)
    \/ \E move \in CloneTokens : ApplyMove("clone", move)
    \/ \E moves \in [1..MaxSequence -> HistoryTokens] : ApplyMoveSequence("cube", moves)
    \/ Reset("cube")
    \/ Clone("cube", "clone")

SpecHistory == Init /\ [][NextHistory]_vars

---------------------------------------------------------------------------
(* The /api/solve handler, statement by statement, among the other requests *)

\* the algorithm names of the requests: the default and one the solver does not know
RequestAlgorithms == {"kociemba", "thistlethwaite"}

\* POST /api/solve with {'algorithm': algorithm}: solve_cube up to working_cube =
\* cube.clone(), the copy bound to the handle clone; a solved cube is answered at once
SolveRequest(algorithm) ==
    /\ api.pc = "idle"
    /\ IF cube_is_solved(mem, "cube")
       THEN /\ api' = [api EXCEPT !.response = [endpoint |-> "solve", argument |-> algorithm,
                                                status |-> 200, success |-> TRUE]]
            /\ mem' = mem
       ELSE /\ mem' = clone(mem, "cube", "clone")
            /\ api' = [api EXCEPT !.pc = "cloned", !.algorithm = algorithm]
    /\ UNCHANGED <<submitted, returned, KOCIEMBA_AVAILABLE, result, scramble, state, threads>>

\* solution_result = solver.solve(working_cube, algorithm)
SolveRun ==
    /\ api.pc = "cloned"
    /\ \E answer \in library_answers(mem, "clone", api.algorithm, KOCIEMBA_AVAILABLE) :
       \E out \in {solve(mem, "clone", api.algorithm, KOCIEMBA_AVAILABLE, answer)} :
          /\ mem' = out.mem
          /\ result' = [called |-> TRUE, success |-> out.success, moves |-> out.moves]
    /\ api' = [api EXCEPT !.pc = "solved"]
    /\ UNCHANGED <<submitted, returned, KOCIEMBA_AVAILABLE, scramble, state, threads>>

\* if solution_result['success']: cube.apply_move_sequence(solution_result['moves']) on
\* the cube the global names now, and the response; working_cube goes out of scope
SolveReplay ==
    /\ api.pc = "solved"
    /\ IF result.success
       THEN /\ mem' = discard(apply_move_sequence(mem, "cube", result.moves), "clone")
            /\ submitted' = [submitted EXCEPT !["cube"] = @ \o result.moves]
            /\ returned' = [returned EXCEPT !["cube"] =
                               @ \o sequence_returns(mem, "cube", result.moves)]
            /\ state' = state_of(mem')
       ELSE /\ mem' = discard(mem, "clone")
            /\ UNCHANGED <<submitted, returned, state>>
    /\ api' = [api EXCEPT !.pc = "done",
                          !.response = [endpoint |-> "solve", argument |-> api.algorithm,
                                        status |-> IF result.success THEN 200 ELSE 400,
                                        success |-> result.success]]
    /\ UNCHANGED <<KOCIEMBA_AVAILABLE, result, scramble, threads>>

NextRequests ==
    \/ \E move \in ScrambleMoves : ExecuteMove(move)
    \/ ResetRequest
    \/ \E size \in {MinSize} : NewCube(size)
    \/ \E algorithm \in RequestAlgorithms : SolveRequest(algorithm)
    \/ SolveRun
    \/ SolveReplay

SpecRequests == InitApi /\ [][NextRequests]_vars

---------------------------------------------------------------------------
(* The kociemba entry of the solver's table on a module without the library *)

\* result = solver.algorithms['kociemba'](cube), once per run: _solve_kociemba works on
\* the cube it is handed; the tokens it passes to apply_move are logged as submitted
SolveKociemba ==
    /\ ~result.called
    /\ \E out \in {solve_kociemba(mem, "cube", KOCIEMBA_AVAILABLE, NoAnswer)} :
          /\ mem' = out.mem
          /\ result' = [called |-> TRUE, success |-> out.success, moves |-> out.moves]
          /\ submitted' = [submitted EXCEPT !["cube"] = @ \o out.moves]
          /\ returned' = [returned EXCEPT !["cube"] =
                             @ \o [i \in 1..Len(out.moves) |-> IsMove(out.moves[i])]]
    /\ UNCHANGED <<KOCIEMBA_AVAILABLE, locals>>

NextKociemba ==
    \/ \E move \in Moves : Scramble(move)
    \/ SolveKociemba

SpecKociemba == Init /\ [][NextKociemba]_vars

---------------------------------------------------------------------------
(* solve called on cubes that report solved *)

\* result = solver.solve(cube, algorithm) on a cube for which is_solved() is true
SolveSolved(algorithm) ==
    /\ cube_is_solved(mem, "cube")
    /\ Solve(algorithm)

NextSolved ==
    \/ \E move \in Moves : Scramble(move)
    \/ \E algorithm \in AlgorithmNames : SolveSolved(algorithm)

SpecSolved == InitSolve /\ [][NextSolved]_vars

---------------------------------------------------------------------------
(* solve called with algorithm names the solver's table does not hold *)

\* names that are no key of self.algorithms: another method, another case, no name
UnknownNames == {"thistlethwaite", "Kociemba", ""}

\* the 'error' field of the record CubeSolver.solve returns at lines 56-61 ("" when the
\* record it returns there has none)
unknown_algorithm_error(m, cube, algorithm) ==
    IF cube_is_solved(m, cube) THEN ""
    ELSE IF selected_algorithm(m, cube, algorithm) \notin Algorithms
         THEN "Unknown algorithm: " \o selected_algorithm(m, cube, algorithm)
         ELSE ""

\* the turns the cube is given before the call: a turn, and the turn of the opposite
\* face that with the first turns a cube of size 2 as a whole
UnknownScramble == {"R", "L'"}

NextUnknown ==
    \/ \E move \in UnknownScramble : Scramble(move)
    \/ \E algorithm \in UnknownNames \cup {"kociemba"} : Solve(algorithm)

SpecUnknown == InitSolve /\ [][NextUnknown]_vars

---------------------------------------------------------------------------
(* The engine on a cube constructed with size 0 *)

\* cube.is_solved() as a call that returns or raises: center_color = face[n // 2][n // 2]
\* is evaluated for the first face before any sticker is compared, and nothing in
\* is_solved catches the IndexError of a subscript outside -n..n-1
is_solved_call(fs, n) ==
    IF n \div 2 \notin (0 - n)..(n - 1)
    THEN [raises |-> TRUE, value |-> FALSE]
    ELSE [raises |-> FALSE, value |-> is_solved(fs, n)]

\* cube = RubiksCube(0): the range check of the server is not part of the engine
InitDegenerate ==
    /\ mem = construct(EmptyMem, "cube", 0)
    /\ submitted = NoLog
    /\ returned = NoLog
    /\ KOCIEMBA_AVAILABLE = FALSE
    /\ result = NoResult
    /\ scramble = NoScramble
    /\ state = NoState
    /\ threads = NoThreads
    /\ api = NoApi

\* one get_state or clone per run
DegenerateQuery ==
    /\ ~state.called
    /\ ~mem.cubes["clone"].live
    /\ \/ GetState("cube")
       \/ Clone("cube", "clone")

NextDegenerate ==
    \/ \E move \in Tokens : ApplyMove("cube", move)
    \/ ResetCall("cube")
    \/ DegenerateQuery

SpecDegenerate == InitDegenerate /\ [][NextDegenerate]_vars

---------------------------------------------------------------------------
(* Properties *)

\* the cube under test
Cur == FacesOf(mem, "cube")
N == SizeOf(mem, "cube")
Hist == HistoryOf(mem, "cube")
Cells == 0..(N - 1)

\* the same token applied k times
RECURSIVE Repeat(_, _, _, _)
Repeat(fs, n, move, k) == IF k = 0 THEN fs ELSE Repeat(Turn(fs, n, move), n, move, k - 1)

ClockwiseMoves == {"U", "R", "F", "D", "L", "B"}

\* the face a token turns
TurnedFace(move) == IF move \in ClockwiseMoves THEN move ELSE FirstLetter(move)

\* C1: in every reachable state of every size in [2,7], each of the 12 tokens
\* followed by its inverse (X <-> X') leaves all 6*N*N stickers as they were.
C1_RoundTrip ==
    \A move \in Moves : Turn(Turn(Cur, N, move), N, reverse_move(move)) = Cur

\* a turn and its inverse were applied to a fresh cube, which is fresh again
C1_Witness ==
    \E move \in Moves :
        /\ submitted["cube"] = <<move, reverse_move(move)>>
        /\ Hist = <<move, reverse_move(move)>>
        /\ Cur = NewFaces(N)
        /\ Turn(Cur, N, move) # Cur

\* C2: in every reachable state, the same token applied four times restores every
\* sticker; from a fresh cube one, two or three clockwise turns do not.
C2_OrderFour ==
    /\ \A move \in Moves : Repeat(Cur, N, move, 4) = Cur
    /\ Hist = <<>> =>
          \A move \in ClockwiseMoves : \A k \in 1..3 : Repeat(Cur, N, move, k) # Cur

\* a token was applied twice to a fresh cube: the cube is not fresh, two more restore it
C2_Witness ==
    \E move \in Moves :
        /\ Hist = <<move, move>>
        /\ Cur # NewFaces(N)
        /\ Repeat(Cur, N, move, 2) = NewFaces(N)

\* C3: in every state reachable by apply_move, apply_move_sequence and reset, each of
\* the six colors is on exactly N*N stickers, so is_valid_state() is true.
C3_ColorConservation ==
    /\ is_valid_state(Cur, N)
    /\ \A color \in Colors : color_count(Cur, N, color) = N * N

\* two turns were applied and the cube is scrambled
C3_Witness == Len(Hist) = 2 /\ ~is_solved(Cur, N) /\ Hist[1] # Hist[2]

\* C4: move_history is the subsequence of the submitted tokens that are in the
\* alphabet, in submission order, and is as long as the number of calls that returned true.
C4_HistoryFidelity ==
    /\ Hist = SelectSeq(submitted["cube"], IsMove)
    /\ Len(Hist) = Cardinality({i \in DOMAIN returned["cube"] : returned["cube"][i]})
    /\ Len(returned["cube"]) = Len(submitted["cube"])

\* an unrecognized token was submitted before a recognized one: only the latter is recorded
C4_Witness ==
    /\ Len(submitted["cube"]) = 2
    /\ submitted["cube"][1] \in BadTokens
    /\ Hist = <<submitted["cube"][2]>>
    /\ returned["cube"] = <<FALSE, TRUE>>

\* C5: apply_move with a token outside the alphabet returns false and changes neither
\* stickers nor history; with a token of the alphabet it returns true.
C5_UnrecognizedIsNoOp ==
    [][\A move \in Tokens :
          ApplyMove("cube", move) =>
              /\ returned'["cube"][Len(returned'["cube"])] = (move \in Moves)
              /\ move \notin Moves =>
                    /\ FacesOf(mem', "cube") = FacesOf(mem, "cube")
                    /\ HistoryOf(mem', "cube") = HistoryOf(mem, "cube")
                    /\ mem' = mem]_vars

\* the lowercase token was rejected on a scrambled cube
C5_Witness ==
    /\ Len(submitted["cube"]) = 2
    /\ submitted["cube"][2] = "u"
    /\ returned["cube"] = <<TRUE, FALSE>>
    /\ Len(Hist) = 1

\* the copy the caller took
Copy == FacesOf(mem, "clone")
CopyHist == HistoryOf(mem, "clone")

\* C6: clone() returns a cube with the size, stickers and history the original has at the
\* call and leaves the original as it is; afterwards no apply_move or reset on the clone
\* changes the original's stickers or history, and none on the original changes the clone's.
C6_CloneIndependence ==
    [][/\ Clone("cube", "clone") =>
            /\ SizeOf(mem', "clone") = SizeOf(mem, "cube")
            /\ FacesOf(mem', "clone") = FacesOf(mem, "cube")
            /\ HistoryOf(mem', "clone") = HistoryOf(mem, "cube")
            /\ FacesOf(mem', "cube") = FacesOf(mem, "cube")
            /\ HistoryOf(mem', "cube") = HistoryOf(mem, "cube")
       /\ mem.cubes["clone"].live =>
            /\ (Reset("clone") \/ \E move \in Tokens : ApplyMove("clone", move)) =>
                  /\ FacesOf(mem', "cube") = FacesOf(mem, "cube")
                  /\ HistoryOf(mem', "cube") = HistoryOf(mem, "cube")
                  /\ SizeOf(mem', "cube") = SizeOf(mem, "cube")
            /\ (Reset("cube") \/ \E move \in Tokens : ApplyMove("cube", move)) =>
                  /\ FacesOf(mem', "clone") = FacesOf(mem, "clone")
                  /\ HistoryOf(mem', "clone") = HistoryOf(mem, "clone")
                  /\ SizeOf(mem', "clone") = SizeOf(mem, "clone")]_vars

\* the clone was taken after one turn; since then each cube made a different turn
C6_Witness ==
    /\ mem.cubes["clone"].live
    /\ Len(Hist) = 2 /\ Len(CopyHist) = 2
    /\ Hist[1] = CopyHist[1] /\ Hist[2] # CopyHist[2]
    /\ submitted["clone"] = <<CopyHist[2]>>
    /\ Copy # Cur

\* C7: a fresh cube of any size in [2,7] is solved, and after exactly one recognized
\* move it is not.
C7_SolvedThenNot ==
    /\ Hist = <<>> => is_solved(Cur, N)
    /\ Len(Hist) = 1 => ~is_solved(Cur, N)

\* one turn was applied to the smallest cube, whose reference sticker is cell (1, 1)
C7_Witness == N = MinSize /\ Len(Hist) = 1 /\ ~is_solved(Cur, N) /\ Hist[1] = "D"

\* C8: for each of kociemba, beginner and reduction, every size and every scrambled
\* cube, when solve returns success = true the cube passed in is solved.
C8_SuccessMeansSolved ==
    (result.called /\ result.success) => is_solved(Cur, N)

\* the same, for a module imported without the kociemba library
SuccessMeansSolvedWithoutLibrary ==
    (result.called /\ result.success /\ ~KOCIEMBA_AVAILABLE) => is_solved(Cur, N)

\* a cube whose stickers are all different: the sticker of cell (r, c) of a face is <<face, r, c>>
Labelled(n) ==
    [face \in FaceIds |-> [r \in 0..(n - 1) |-> [c \in 0..(n - 1) |-> <<face, r, c>>]]]

\* C9: the clockwise move X sends the sticker at (r, c) of face X to (c, N-1-r) and the
\* counter-clockwise move X' sends it to (N-1-c, r); every cell receives a pre-move value.
C9_OwnFaceRotation ==
    /\ \A face \in ClockwiseMoves :
          \A cw \in {Turn(Cur, N, face)} : \A ccw \in {Turn(Cur, N, face \o "'")} :
              \A r \in Cells : \A c \in Cells :
                  /\ cw[face][c][N - 1 - r] = Cur[face][r][c]
                  /\ ccw[face][N - 1 - c][r] = Cur[face][r][c]
    /\ Hist = <<>> =>
          \A face \in ClockwiseMoves :
              \A cw \in {dispatch(Labelled(N), N, face)} :
              \A ccw \in {dispatch(Labelled(N), N, face \o "'")} :
                  \A r \in Cells : \A c \in Cells :
                      /\ cw[face][c][N - 1 - r] = <<face, r, c>>
                      /\ ccw[face][N - 1 - c][r] = <<face, r, c>>

\* R put a green column on the Up face and U turned it into the Up face's last row
C9_Witness ==
    /\ Hist = <<"R", "U">>
    /\ \A c \in Cells : Cur["U"][N - 1][c] = "G"
    /\ \A r \in 0..(N - 2) : \A c \in Cells : Cur["U"][r][c] = "W"

Opposite(face) ==
    CASE face = "U" -> "D" [] face = "D" -> "U"
      [] face = "R" -> "L" [] face = "L" -> "R"
      [] face = "F" -> "B" [] face = "B" -> "F"

Adjacent(face) == FaceIds \ {face, Opposite(face)}

\* the cells of face f on the border it shares with the adjacent face x, on the cube net
\* with U above F, D below F, L and R beside F and B beyond R
Touching(f, x, n) ==
    LET row(k) == {<<k, c>> : c \in 0..(n - 1)}
        col(k) == {<<r, k>> : r \in 0..(n - 1)}
    IN  CASE f = "U" -> (CASE x = "B" -> row(0) [] x = "F" -> row(n - 1)
                           [] x = "L" -> col(0) [] x = "R" -> col(n - 1))
          [] f = "D" -> (CASE x = "F" -> row(0) [] x = "B" -> row(n - 1)
                           [] x = "L" -> col(0) [] x = "R" -> col(n - 1))
          [] f = "F" -> (CASE x = "U" -> row(0) [] x = "D" -> row(n - 1)
                           [] x = "L" -> col(0) [] x = "R" -> col(n - 1))
          [] f = "B" -> (CASE x = "U" -> row(0) [] x = "D" -> row(n - 1)
                           [] x = "R" -> col(0) [] x = "L" -> col(n - 1))
          [] f = "R" -> (CASE x = "U" -> row(0) [] x = "D" -> row(n - 1)
                           [] x = "F" -> col(0) [] x = "B" -> col(n - 1))
          [] f = "L" -> (CASE x = "U" -> row(0) [] x = "D" -> row(n - 1)
                           [] x = "B" -> col(0) [] x = "F" -> col(n - 1))

\* on the all-different cube after a turn of face x: the face the strip of f came from
StripOrigin(after, f, x, n) ==
    LET cell == CHOOSE cell \in Touching(f, x, n) : TRUE
    IN  after[f][cell[1]][cell[2]][1]

\* C10: each move leaves the face opposite the turned one unchanged and changes, on each
\* adjacent face, only the border strip touching the turned face; the four strips move
\* as one 4-cycle.
C10_StripFrame ==
    /\ \A move \in Moves : \A x \in {TurnedFace(move)} : \A after \in {Turn(Cur, N, move)} :
          /\ after[Opposite(x)] = Cur[Opposite(x)]
          /\ \A f \in Adjacent(x) : \A strip \in {Touching(f, x, N)} :
                \A r \in Cells : \A c \in Cells :
                    <<r, c>> \notin strip => after[f][r][c] = Cur[f][r][c]
    /\ Hist = <<>> =>
          \A move \in Moves : \A x \in {TurnedFace(move)} :
          \A after \in {dispatch(Labelled(N), N, move)} :
              \A f \in Adjacent(x) : \A g \in {StripOrigin(after, f, x, N)} :
                 /\ {after[f][cell[1]][cell[2]] : cell \in Touching(f, x, N)}
                       = {<<g, cell[1], cell[2]>> : cell \in Touching(g, x, N)}
                 /\ g \in Adjacent(x) \ {f}
                 /\ StripOrigin(after, g, x, N) # f
                 /\ StripOrigin(after, StripOrigin(after, StripOrigin(after, g, x, N), x, N), x, N) = f

\* F moved the Down row onto the Left face's last column and nothing else of that face
C10_Witness ==
    /\ Hist = <<"F">>
    /\ Cur["B"] = NewFaces(N)["B"]
    /\ \A r \in Cells : Cur["L"][r][N - 1] = "Y"
    /\ \A r \in Cells : \A c \in 0..(N - 2) : Cur["L"][r][c] = "O"

\* the sequence R U R' U' written k times
RECURSIVE Times(_, _)
Times(round, k) == IF k = 0 THEN <<>> ELSE round \o Times(round, k - 1)

\* C11: on a fresh 3x3 cube, R U R' U' applied six times in a row leaves the cube solved
\* with every sticker equal to the fresh cube's.
C11_SixRounds ==
    (N = 3 /\ submitted["cube"] = Times(<<"R", "U", "R'", "U'">>, 6)) =>
        /\ is_solved(Cur, N)
        /\ Cur = NewFaces(3)

\* the six rounds were applied to the 3x3 cube and recorded, 24 moves in all
C11_Witness ==
    /\ N = 3
    /\ Hist = Times(<<"R", "U", "R'", "U'">>, 6)
    /\ Len(Hist) = 24
    /\ Turn(Cur, N, "R") # Cur

\* cube.apply_move(move) for each move of the list, one call after the other
RECURSIVE one_by_one(_, _, _)
one_by_one(m, h, moves) ==
    IF moves = <<>> THEN m
    ELSE one_by_one(apply_move(m, h, Head(moves)).mem, h, Tail(moves))

\* the tokens a step appended to the log of the cube
Appended ==
    SubSeq(submitted'["cube"], Len(submitted["cube"]) + 1, Len(submitted'["cube"]))

\* C12: apply_move_sequence(tokens) leaves the stickers and the history that apply_move
\* called on each token in list order leaves: an unrecognized token is skipped and the
\* tokens after it are still applied.
C12_SequenceIsEachMove ==
    [][ApplyMoveSequence("cube", Appended) =>
          /\ mem' = one_by_one(mem, "cube", Appended)
          /\ HistoryOf(mem', "cube") = Hist \o SelectSeq(Appended, IsMove)
          /\ \A i \in 1..Len(Appended) :
                Appended[i] \in Moves => \E k \in 1..Len(HistoryOf(mem', "cube")) :
                    /\ HistoryOf(mem', "cube")[k] = Appended[i]
                    /\ k = Len(Hist) + Cardinality({e \in 1..i : Appended[e] \in Moves})]_vars

\* one call was given an unrecognized token followed by R: R was applied and recorded
C12_Witness ==
    /\ submitted["cube"] = <<"M", "R">>
    /\ returned["cube"] = <<FALSE, TRUE>>
    /\ Hist = <<"R">>
    /\ Cur = Turn(NewFaces(N), N, "R")

\* C13: from any reachable state, reset() leaves the cube with the same size, an empty
\* move history and the stickers of a freshly constructed cube of that size: Up W,
\* Right R, Front G, Down Y, Left O, Back B on every cell.
C13_ResetIsFresh ==
    [][ResetCall("cube") =>
          /\ SizeOf(mem', "cube") = N
          /\ HistoryOf(mem', "cube") = <<>>
          /\ FacesOf(mem', "cube") = FacesOf(construct(EmptyMem, "cube", N), "cube")
          /\ \A r \in Cells : \A c \in Cells :
                /\ FacesOf(mem', "cube")["U"][r][c] = "W"
                /\ FacesOf(mem', "cube")["R"][r][c] = "R"
                /\ FacesOf(mem', "cube")["F"][r][c] = "G"
                /\ FacesOf(mem', "cube")["D"][r][c] = "Y"
                /\ FacesOf(mem', "cube")["L"][r][c] = "O"
                /\ FacesOf(mem', "cube")["B"][r][c] = "B"
          /\ \A face \in FaceIds : DOMAIN FacesOf(mem', "cube")[face] = Cells]_vars

\* two different turns were applied to the largest cube, which was then reset
C13_Witness ==
    /\ N = MaxSize
    /\ submitted["cube"] = <<"R", "U">>
    /\ returned["cube"] = <<TRUE, TRUE>>
    /\ Hist = <<>>
    /\ Cur = NewFaces(N)

\* the stickers of the cube and the number of them that hold a value
Stickers == FaceIds \X Cells \X Cells
Occurrences(value) ==
    Cardinality({sticker \in Stickers : Cur[sticker[1]][sticker[2]][sticker[3]] = value})

UnknownValueRejected ==
    /\ Cur["R"][N \div 2][N \div 2] = "X"
    /\ ~is_valid_state(Cur, N)

\* the values on a face
FaceValues(face) == {Cur[face][r][c] : r \in Cells, c \in Cells}

\* C15: is_solved() is true if and only if, on each of the six faces, every sticker
\* equals the face's reference sticker at cell (N div 2, N div 2), for odd and even N.
C15_SolvedIffUniform ==
    /\ is_solved(Cur, N) <=>
          \A face \in {"U", "R", "F", "D", "L", "B"} :
              \A r \in Cells : \A c \in Cells : Cur[face][r][c] = Cur[face][N \div 2][N \div 2]
    /\ is_solved(Cur, N) <=>
          \A face \in FaceIds : FaceValues(face) = {Cur[face][N \div 2][N \div 2]}
    /\ (N \div 2) \in Cells

\* on a cube of even size the reference sticker of Right was overwritten and nothing
\* else: the other stickers of the face differ from it and the cube is not solved
C15_Witness ==
    /\ N = 4
    /\ Cur["R"][2][2] = "G"
    /\ Cardinality(FaceValues("R")) = 2
    /\ \A face \in FaceIds \ {"R"} : Cur[face] = NewFaces(N)[face]
    /\ ~is_solved(Cur, N)

\* the lists of k tokens of the alphabet in which no token turns the face of the token
\* before it
Constrained(k) ==
    {list \in [1..k -> {"U", "U'", "R", "R'", "F", "F'", "D", "D'", "L", "L'", "B", "B'"}] :
        \A i \in 2..k : TurnedFace(list[i]) # TurnedFace(list[i - 1])}

\* C16: generate_scramble(length) returns exactly `length` tokens, none when length <= 0,
\* each of the 12-token alphabet, no token with the face letter of the token before it;
\* the first token may be any of the 12 and every such sequence is a possible result.
C16_ScrambleShape ==
    scramble.called =>
        /\ Len(scramble.moves) = (IF scramble.length <= 0 THEN 0 ELSE scramble.length)
        /\ \A i \in 1..Len(scramble.moves) : scramble.moves[i] \in Moves
        /\ \A i \in 2..Len(scramble.moves) :
              TurnedFace(scramble.moves[i]) # TurnedFace(scramble.moves[i - 1])
        /\ (Hist = <<>> /\ N = MinSize) =>
              /\ generate_scramble(scramble.length) = Constrained(Len(scramble.moves))
              /\ scramble.length >= 1 =>
                    {list[1] : list \in generate_scramble(scramble.length)} = Moves

\* a scramble of the greatest length asked for was returned, its first token a
\* counter-clockwise turn
C16_Witness ==
    /\ scramble.called
    /\ scramble.length = MaxScramble
    /\ Len(scramble.moves) = MaxScramble
    /\ scramble.moves[1] = "B'"
    /\ scramble.moves[2] = "U"

\* a negative length was asked for and no token was returned
NegativeLengthIsEmpty == ~(scramble.called /\ scramble.length < 0 /\ scramble.moves # <<>>)

\* C17: generate_scramble does not apply the tokens it returns: across the step in which
\* the call returns, the stickers and the move history of the cube stay the same.
C17_ScrambleNotApplied ==
    [][(~scramble.called /\ scramble'.called) =>
          /\ FacesOf(mem', "cube") = Cur
          /\ HistoryOf(mem', "cube") = Hist
          /\ mem' = mem
          /\ submitted' = submitted]_vars

\* a scramble was returned to the caller of a turned cube, whose history holds the one
\* turn made and none of the scramble
C17_Witness ==
    /\ scramble.called
    /\ Len(scramble.moves) = 2
    /\ Hist = <<"U">>
    /\ submitted["cube"] = <<"U">>
    /\ scramble.moves[1] # "U"
    /\ Cur = Turn(NewFaces(N), N, "U")

\* C18: for every algorithm, applying the moves solve returned with apply_move_sequence
\* to a cube equal to the cube before the call gives the stickers the solver's working
\* copy had when the algorithm returned.
C18_MovesReplayable ==
    [][(~result.called /\ result'.called /\ result'.success /\ ~is_solved(Cur, N)) =>
          \A algorithm \in Algorithms :
          \A answer \in library_answers(mem, "cube", algorithm, KOCIEMBA_AVAILABLE) :
          \A found \in {solve_working_cube(mem, "cube",
                                            selected_algorithm(mem, "cube", algorithm),
                                            KOCIEMBA_AVAILABLE, answer)} :
              (found.success /\ found.moves = result'.moves) =>
                  FacesOf(apply_move_sequence(mem, "cube", result'.moves), "cube")
                      = FacesOf(found.mem, "working_cube")]_vars

\* the same, for a module imported without the kociemba library
MovesReplayableWithoutLibrary ==
    [][(~result.called /\ result'.called /\ result'.success /\ ~is_solved(Cur, N)
            /\ ~KOCIEMBA_AVAILABLE) =>
          \A algorithm \in Algorithms :
          \A found \in {solve_working_cube(mem, "cube",
                                            selected_algorithm(mem, "cube", algorithm),
                                            FALSE, NoAnswer)} :
              (found.success /\ found.moves = result'.moves) =>
                  /\ FacesOf(apply_move_sequence(mem, "cube", result'.moves), "cube")
                        = FacesOf(found.mem, "working_cube")
                  /\ FacesOf(mem', "cube") = FacesOf(found.mem, "working_cube")]_vars

\* the face a key of the returned dictionary shows, and the name of a color
KeyFace ==
    [front |-> "F", back |-> "B", left |-> "L", right |-> "R", top |-> "U", bottom |-> "D"]
FullName ==
    [W |-> "white", R |-> "red", G |-> "green", Y |-> "yellow", O |-> "orange", B |-> "blue"]

\* C19: get_state() returns, for the keys front, back, left, right, top, bottom (faces
\* F, B, L, R, U, D), a flat list of N*N full color names in row-major order of the
\* face's grid, and 'size' = N; it does not change the cube, and two calls with no
\* mutation between them return equal values.
C19_StateShape ==
    [][GetState("cube") =>
          /\ mem' = mem
          /\ DOMAIN state'.value = DOMAIN KeyFace \cup {"size"}
          /\ state'.value.size = N
          /\ \A key \in DOMAIN KeyFace :
                /\ Len(state'.value[key]) = N * N
                /\ \A r \in Cells : \A c \in Cells :
                      state'.value[key][r * N + c + 1] = FullName[Cur[KeyFace[key]][r][c]]
          /\ (state.called /\ state.move_count = Len(Hist)) => state'.value = state.value]_vars

\* the state was read after R on the 3x3 cube: the top face lists a green last column
\* in row-major order
C19_Witness ==
    /\ state.called
    /\ N = 3
    /\ Hist = <<"R">>
    /\ state.move_count = 1
    /\ state.value.size = 3
    /\ state.value.top = <<"white", "white", "green", "white", "white", "green",
                           "white", "white", "green">>
    /\ state.value.bottom[3] = "blue"

\* the moves of a list applied one after the other
RECURSIVE Turns(_, _, _)
Turns(fs, n, moves) ==
    IF moves = <<>> THEN fs ELSE Turns(Turn(fs, n, Head(moves)), n, Tail(moves))

\* no call is in flight
Quiescent == \A t \in Threads : threads.of[t].status # "running"

\* both calls have returned
BothReturned == \A t \in Threads : threads.of[t].status = "returned"

\* the stickers the two calls leave on a fresh cube when one runs after the other
SequentialOrders ==
    {Turns(NewFaces(N), N, <<threads.of[t].move, threads.of[Other(t)].move>>) : t \in Threads}

\* C20: apply_move has no locking. Two calls on one cube that run one after the other, or
\* that run on independent clones, leave color conservation intact and the stickers of a
\* sequential order; two calls interleaved on one cube at the granularity of sticker
\* reads and writes can leave is_valid_state() false and stickers of neither order.
C20_UnsharedCallsAreSequential ==
    (Quiescent /\ threads.sharing \in {"serialized", "clones"}) =>
        /\ \A h \in {"cube", "clone"} :
              mem.cubes[h].live =>
                  /\ is_valid_state(FacesOf(mem, h), SizeOf(mem, h))
                  /\ FacesOf(mem, h) = Turns(NewFaces(SizeOf(mem, h)), SizeOf(mem, h),
                                             HistoryOf(mem, h))
                  /\ HistoryOf(mem, h) = submitted[h]
        /\ (BothReturned /\ threads.sharing = "serialized") => Cur \in SequentialOrders

\* two calls interleaved on the one cube have both returned true: the stickers are those
\* of neither sequential order and color conservation is broken
C20_Witness ==
    /\ threads.sharing = "shared"
    /\ BothReturned
    /\ returned["cube"] = <<TRUE, TRUE>>
    /\ Len(Hist) = 2
    /\ Cur \notin SequentialOrders
    /\ ~is_valid_state(Cur, N)

\* two serialized calls and two calls on clones have returned
SerializedCallsReturned ==
    ~(threads.sharing = "serialized" /\ BothReturned /\ Cur # NewFaces(N))
ClonedCallsReturned ==
    ~(threads.sharing = "clones" /\ BothReturned /\ Cur # Copy)

\* the apply_move calls the loops of _solve_beginner make: range(k) rounds of the
\* tokens of their algorithms, with the turns between rounds
beginner_calls ==
    (8 * (5 + 5 + 5 + 6 + 1) + 4) + (12 * (4 + 4 + 4 + 4) + 4) + (8 * (8 + 1))
        + (6 * (6 + 1)) + (8 * (7 + 1)) + (4 * (13 + 1)) + (6 * (11 + 1))

\* the apply_move calls the loops of _solve_reduction make on a cube of the size
reduction_calls(size) ==
    (IF size = 4 THEN (10 * (7 + 6 + 6) + 4) + (12 * (6 + 6 + 5 + 1))
     ELSE IF size = 5 THEN (15 * (8 + 8 + 6) + 4) + (18 * (10 + 10 + 1))
     ELSE (Min(25, size * 5) * (6 + 6 + 6 + 4) + 5) + (Min(30, size * 6) * (9 + 9 + 6 + 1)))
        + (20 * (4 + 6 + 13 + 1))

\* the apply_move calls of the retry loop of _solve_kociemba_fallback: twenty attempts at most
retry_calls == 5 * (4 + 6 + 6 + 8) + 5

\* the most tokens solve can return for a cube of the size whose history has `history`
\* entries: the loops above, and one undo loop over the history and the accepted tokens
MoveBudget(size, history) ==
    With(IF beginner_calls > reduction_calls(size)
         THEN beginner_calls ELSE reduction_calls(size),
         LAMBDA calls : history + 2 * calls + retry_calls)

\* C21: solve returns, for every algorithm name (known or unknown), every size and every
\* reachable cube, a record with a Boolean success field and a list of tokens; the list
\* is no longer than the bounds of the solver's loops allow, and the cube passed in is
\* still a cube of the same size.
C21_SolveReturnsRecord ==
    [][(~result.called /\ result'.called) =>
          /\ {"success", "moves"} \subseteq DOMAIN result'
          /\ result'.success \in BOOLEAN
          /\ result'.moves \in Seq(Tokens \cup HalfTurnMoves \cup {"Reset"})
          /\ Len(result'.moves) <= MoveBudget(N, Len(Hist))
          /\ mem'.cubes["cube"].live
          /\ SizeOf(mem', "cube") = N]_vars

\* solve returned after every loop of the beginner method and the undo loop ran
C21_Witness ==
    /\ result.called
    /\ result.success
    /\ Len(result.moves) > beginner_calls

\* solve returned success = false for the algorithm name it does not know
UnknownAlgorithmReturnsFailure ==
    result.called /\ ~result.success /\ result.moves = <<>> /\ ~is_solved(Cur, N)

\* the face grids of a cube are six n x n grids of colors
WellFormed(fs, n) ==
    fs \in [FaceIds -> [0..(n - 1) -> [0..(n - 1) -> Colors]]]

\* C22: for every size from 1 up, sizes 1 and above 7 included, construction and every
\* engine operation complete: no move, is_solved included, subscripts a grid outside
\* 0..N-1, every cube is six N x N grids of colors, every recognized move returned true
\* (no exception was caught in apply_move), and is_solved, is_valid_state, get_state and
\* generate_scramble have values.
C22_EngineCompletesForAnySize ==
    /\ \A operation \in Moves \cup {"is_solved"} : list_indices(operation, N) \subseteq 0..(N - 1)
    /\ \A h \in Handles :
          mem.cubes[h].live =>
              /\ SizeOf(mem, h) = N
              /\ WellFormed(FacesOf(mem, h), N)
              /\ is_solved(FacesOf(mem, h), N) \in BOOLEAN
              /\ is_valid_state(FacesOf(mem, h), N)
              /\ get_state(mem, h).size = N
              /\ \A key \in {"front", "back", "left", "right", "top", "bottom"} :
                    Len(get_state(mem, h)[key]) = N * N
    /\ \A i \in 1..Len(returned["cube"]) : returned["cube"][i]
    /\ scramble.called => Len(scramble.moves) = Iterations(scramble.length)

\* a cube of size 1 was turned and queried
C22_Witness ==
    /\ N = 1
    /\ Len(Hist) = MaxSubmitted
    /\ state.called
    /\ state.move_count = MaxSubmitted

\* a cube one size above the admitted range was turned and its scramble generated
SizeAboveAdmittedRange ==
    /\ N = MaxAnySize
    /\ MaxAnySize > MaxSize
    /\ Hist # <<>>
    /\ ~is_solved(Cur, N)

\* C23: a /api/new-cube request with size < 2 or size > 7 is answered with an error and
\* leaves the shared cube (size, stickers, history) as it was; a request with a size in
\* 2..7 is answered with success and replaces the shared cube with a fresh solved cube of
\* that size with an empty history.
C23_NewCubeEnforcesRange ==
    [][(api'.response.endpoint = "new-cube") =>
          \E size \in {api'.response.argument} :
              IF size \in MinSize..MaxSize
              THEN /\ api'.response.success
                   /\ api'.response.status = 200
                   /\ SizeOf(mem', "cube") = size
                   /\ FacesOf(mem', "cube") = NewFaces(size)
                   /\ HistoryOf(mem', "cube") = <<>>
                   /\ is_solved(FacesOf(mem', "cube"), size)
              ELSE /\ ~api'.response.success
                   /\ api'.response.status = 400
                   /\ SizeOf(mem', "cube") = N
                   /\ FacesOf(mem', "cube") = Cur
                   /\ HistoryOf(mem', "cube") = Hist]_vars

\* a request for a size above the range was refused while the shared cube was scrambled
C23_Witness ==
    /\ api.response.endpoint = "new-cube"
    /\ api.response.argument = MaxSize + 1
    /\ ~api.response.success
    /\ Hist # <<>>
    /\ ~is_solved(Cur, N)

\* a request for the largest admitted size replaced the shared cube
LargestSizeAdmitted ==
    /\ api.response.endpoint = "new-cube"
    /\ api.response.success
    /\ N = MaxSize
    /\ Hist = <<>>

\* the color of the face opposite the face that starts with the color
OppositeColor(color) ==
    InitColor(Opposite(CHOOSE face \in FaceIds : InitColor(face) = color))

\* C24 as stated: on every cube of size 2..7 reached by face turns from a fresh cube,
\* is_solved() is true only if the stickers are exactly those of the fresh cube.
C24_SolvedMeansFresh ==
    is_solved(Cur, N) => Cur = NewFaces(N)

\* C24, amended: on every cube of size 3..7 reached by face turns from a fresh cube,
\* is_solved() is true only if the stickers are exactly those of the fresh cube; on a
\* cube of size 2 it is true only if every face is of one color and opposite faces carry
\* opposite colors, the fresh cube turned as a whole being among these states.
C24_SolvedMeansFreshFromSizeThree ==
    is_solved(Cur, N) =>
        /\ N >= 3 => Cur = NewFaces(N)
        /\ \A face \in FaceIds : \A r \in Cells : \A c \in Cells :
              /\ Cur[face][r][c] = Cur[face][0][0]
              /\ Cur[Opposite(face)][r][c] = OppositeColor(Cur[face][0][0])

\* R then L' on a cube of size 2: reported solved, with the Front color on the Up face
C24_Witness ==
    /\ N = 2
    /\ Hist = <<"R", "L'">>
    /\ is_solved(Cur, N)
    /\ Cur # NewFaces(N)
    /\ Cur["U"][0][0] = InitColor("F")

\* a cube of size 3 or more came back to solved after turns: it is the fresh cube
SolvedAgainFromSizeThree ==
    /\ N >= 3
    /\ Hist # <<>>
    /\ is_solved(Cur, N)

\* the three cells that meet at each of the 8 corners of a cube of size n, on the net
\* with U above F, D below F, L and R beside F and B beyond R: row 0 of U and row n-1
\* of D lie along B, column 0 of R, of B and of L lies along F, R and B
Corners(n) ==
    LET z == n - 1
    IN  { {<<"U", z, z>>, <<"F", 0, z>>, <<"R", 0, 0>>},
          {<<"U", z, 0>>, <<"F", 0, 0>>, <<"L", 0, z>>},
          {<<"U", 0, z>>, <<"B", 0, 0>>, <<"R", 0, z>>},
          {<<"U", 0, 0>>, <<"B", 0, z>>, <<"L", 0, 0>>},
          {<<"D", 0, z>>, <<"F", z, z>>, <<"R", z, 0>>},
          {<<"D", 0, 0>>, <<"F", z, 0>>, <<"L", z, z>>},
          {<<"D", z, z>>, <<"B", z, 0>>, <<"R", z, z>>},
          {<<"D", z, 0>>, <<"B", z, z>>, <<"L", z, 0>>} }

\* the two cells of each of the 12 edges of a cube of size 3
Edges ==
    { {<<"U", 2, 1>>, <<"F", 0, 1>>}, {<<"U", 1, 2>>, <<"R", 0, 1>>},
      {<<"U", 0, 1>>, <<"B", 0, 1>>}, {<<"U", 1, 0>>, <<"L", 0, 1>>},
      {<<"D", 0, 1>>, <<"F", 2, 1>>}, {<<"D", 1, 2>>, <<"R", 2, 1>>},
      {<<"D", 2, 1>>, <<"B", 2, 1>>}, {<<"D", 1, 0>>, <<"L", 2, 1>>},
      {<<"F", 1, 2>>, <<"R", 1, 0>>}, {<<"F", 1, 0>>, <<"L", 1, 2>>},
      {<<"B", 1, 0>>, <<"R", 1, 2>>}, {<<"B", 1, 2>>, <<"L", 1, 0>>} }

\* the colors the cells of a piece carry
ColorsAt(fs, piece) == {fs[cell[1]][cell[2]][cell[3]] : cell \in piece}

\* the pieces carry as many different colors as they have cells, no two of them opposite,
\* and no two pieces carry the same colors
Consistent(fs, pieces) ==
    /\ \A piece \in pieces :
          /\ Cardinality(ColorsAt(fs, piece)) = Cardinality(piece)
          /\ \A color \in ColorsAt(fs, piece) : OppositeColor(color) \notin ColorsAt(fs, piece)
    /\ Cardinality({ColorsAt(fs, piece) : piece \in pieces}) = Cardinality(pieces)

\* C25: in every state reached by moves from a fresh cube of size 2..7 the three stickers
\* at each of the 8 corners carry three different colors, no two of them opposite, and the
\* 8 corners carry 8 different triples; on a cube of size 3 the same holds of the two
\* stickers of each of the 12 edges.  Each of the 12 moves carries the three stickers of
\* a corner to the three cells of a corner (and the two of an edge to an edge), so the
\* same holds after any number of moves.
C25_CornersConsistent ==
    /\ Consistent(Cur, Corners(N))
    /\ N = 3 => Consistent(Cur, Edges)
    /\ Hist = <<>> =>
          \A move \in Moves :
          \A after \in {dispatch(Labelled(N), N, move)} :
              /\ \A corner \in Corners(N) : ColorsAt(after, corner) \in Corners(N)
              /\ N = 3 => \A edge \in Edges : ColorsAt(after, edge) \in Edges

\* a cube of size 3 after B then F': the Up-Front-Right corner shows a sticker of the
\* Left face and consistent colors
C25_Witness ==
    /\ N = 3
    /\ Hist = <<"B", "F'">>
    /\ ColorsAt(Cur, {<<"U", 2, 2>>, <<"F", 0, 2>>, <<"R", 0, 0>>}) # {"W", "G", "R"}
    /\ Consistent(Cur, Corners(N))
    /\ Consistent(Cur, Edges)

\* C26: in every state reached through construction, apply_move, apply_move_sequence,
\* reset and clone, the stickers of every cube are those of a fresh cube of its size
\* after the moves of its move_history in order; and the inverse of each history entry,
\* last entry first, brings the stickers back to the fresh cube's.
C26_StickersAreHistoryReplayed ==
    \A h \in Handles :
        mem.cubes[h].live =>
            \E n \in {SizeOf(mem, h)} : \E history \in {HistoryOf(mem, h)} :
                /\ \A i \in 1..Len(history) : history[i] \in Moves
                /\ FacesOf(mem, h) = Turns(NewFaces(n), n, history)
                /\ Turns(FacesOf(mem, h), n, reversed_history(mem, h)) = NewFaces(n)

\* a clone taken of a turned cube and turned further, the original reset since
C26_Witness ==
    /\ mem.cubes["clone"].live
    /\ Len(HistoryOf(mem, "clone")) = MaxSubmitted
    /\ Len(submitted["clone"]) < Len(HistoryOf(mem, "clone"))
    /\ Hist = <<>>
    /\ ~is_solved(FacesOf(mem, "clone"), N)

\* C27: every token the solving layer passes to apply_move of the caller's cube, and
\* every token of the move list solve() returns, is one of the 12 tokens of the alphabet:
\* no double turn such as "D2" and no "M" or "Reset" among them.
C27_SolverTokensInAlphabet ==
    (result.called /\ result.success) =>
        /\ \A i \in 1..Len(result.moves) : result.moves[i] \in Moves
        /\ \A i \in 1..Len(submitted["cube"]) : submitted["cube"][i] \in Moves

\* the beginner method returned success for a cube of size 3 with a list that holds the
\* double turn "D2", which apply_move rejected when solve replayed the list
DoubleTurnReturned ==
    /\ result.called
    /\ result.success
    /\ N = 3
    /\ \E i \in 1..Len(result.moves) :
          /\ result.moves[i] = "D2"
          /\ submitted["cube"][Len(submitted["cube"]) - Len(result.moves) + i] = "D2"
          /\ ~returned["cube"][Len(returned["cube"]) - Len(result.moves) + i]

\* C28: when the host lets one request onto the shared cube at a time, the shared cube is
\* solved whenever /api/solve has answered with the success of the solver.
C28_SerializedSolveLeavesSolved ==
    (api.serialized /\ api.response.endpoint = "solve" /\ api.response.success) =>
        is_solved(Cur, N)

\* the same, for a server started without the kociemba library
SerializedSolveLeavesSolvedWithoutLibrary ==
    (api.serialized /\ ~KOCIEMBA_AVAILABLE
        /\ api.response.endpoint = "solve" /\ api.response.success) => is_solved(Cur, N)

\* without the library and without serialization: a /api/move request handled between the
\* handler's clone and its replay, the solver's result a success, the moves computed for
\* the stale clone replayed, and the shared cube left unsolved
StaleReplayLeavesUnsolved ==
    /\ ~api.serialized
    /\ ~KOCIEMBA_AVAILABLE
    /\ api.response.endpoint = "solve"
    /\ api.response.success
    /\ api.between = {"move"}
    /\ result.moves # <<>>
    /\ ~is_solved(Cur, N)

\* the serialized server with the library: the answer "R2" replayed and rejected
SerializedHalfTurnRejected ==
    /\ api.serialized
    /\ KOCIEMBA_AVAILABLE
    /\ api.response.endpoint = "solve"
    /\ api.response.success
    /\ result.moves = <<"R2">>
    /\ ~is_solved(Cur, N)

\* C29: without the kociemba library, the kociemba solver run on a cube whose stickers
\* match its history returns success with exactly as many moves as the history has
\* entries, the inverse of each entry from the last to the first; the moves it appended
\* to the history are not undone in turn; the cube is then solved, so the retry loop is
\* not entered and the list is not ["Reset"].
C29_FallbackUndoesHistory ==
    [][(~result.called /\ result'.called /\ ~KOCIEMBA_AVAILABLE) =>
          /\ result'.success
          /\ Len(result'.moves) = Len(Hist)
          /\ \A i \in 1..Len(Hist) : result'.moves[i] = reverse_move(Hist[Len(Hist) + 1 - i])
          /\ HistoryOf(mem', "cube") = Hist \o result'.moves
          /\ cube_is_solved(apply_move_sequence(mem, "cube", result'.moves), "cube")
          /\ FacesOf(mem', "cube") = NewFaces(N)
          /\ result'.moves # <<"Reset">>]_vars

\* the solver undid a history of two turns of different faces
C29_Witness ==
    /\ result.called
    /\ ~KOCIEMBA_AVAILABLE
    /\ result.moves = <<"U'", "R'">>
    /\ Hist = <<"R", "U", "U'", "R'">>
    /\ is_solved(Cur, N)

\* C30: solve called on a cube for which is_solved() is true returns success = true with
\* an empty move list and leaves the cube's stickers and move history, and every other
\* object, as they were, for every algorithm name, known or not, and every size.
C30_SolvedCubeIsLeftAlone ==
    [][(~result.called /\ result'.called /\ is_solved(Cur, N)) =>
          /\ result'.success
          /\ result'.moves = <<>>
          /\ FacesOf(mem', "cube") = Cur
          /\ HistoryOf(mem', "cube") = Hist
          /\ mem' = mem
          /\ submitted' = submitted]_vars

\* solve returned for a cube that was turned and turned back
C30_Witness ==
    /\ result.called
    /\ result.success
    /\ result.moves = <<>>
    /\ Hist = <<"F", "F'">>
    /\ is_solved(Cur, N)

\* solve returned for the cube of size 2 turned as a whole, which reports solved
SolvedAsAWholeLeftAlone ==
    /\ result.called
    /\ result.moves = <<>>
    /\ N = 2
    /\ Hist = <<"R", "L'">>
    /\ Cur # NewFaces(N)

KnownAlgorithmFailureLeavesCube ==
    /\ result.called
    /\ ~result.success
    /\ N = 2
    /\ KOCIEMBA_AVAILABLE
    /\ Hist = <<"R">>
    /\ submitted["cube"] = <<"R">>

\* the two tokens that turn a face
TurnsOf(face) == {face, face \o "'"}

\* C32: turns of opposite faces commute: for every size 2..7, every reachable state and
\* every pair of tokens a in {U, U'} and b in {D, D'}, likewise R/L and F/B, a then b
\* leaves exactly the stickers b then a leaves; on a cube whose stickers are all
\* different the two orders send every sticker to the same cell.
C32_OppositeTurnsCommute ==
    \A face \in {"U", "R", "F"} :
    \A a \in TurnsOf(face) :
    \A b \in TurnsOf(Opposite(face)) :
        /\ Turn(Turn(Cur, N, a), N, b) = Turn(Turn(Cur, N, b), N, a)
        /\ Hist = <<>> =>
              dispatch(dispatch(Labelled(N), N, a), N, b)
                  = dispatch(dispatch(Labelled(N), N, b), N, a)

\* a cube of size 7 after F then B', the state B' then F leads to as well, from which
\* the turns of two adjacent faces taken in the two orders lead to different stickers
C32_Witness ==
    /\ N = 7
    /\ Hist = <<"F", "B'">>
    /\ Cur = Turn(Turn(NewFaces(N), N, "B'"), N, "F")
    /\ Cur # NewFaces(N)
    /\ Turn(Turn(Cur, N, "U"), N, "R") # Turn(Turn(Cur, N, "R"), N, "U")

\* the tokens of `tokens` for which the value returned with them in `values` is true;
\* the history is what of them was submitted since the last reset
RECURSIVE Kept(_, _)
Kept(tokens, values) ==
    IF tokens = <<>> THEN <<>>
    ELSE (IF Head(values) THEN <<Head(tokens)>> ELSE <<>>) \o Kept(Tail(tokens), Tail(values))

\* C33: on a cube constructed with size 0 (construction does not fail) every query and
\* move returns a value and none throws: is_solved, is_valid_state, get_state, clone,
\* reset, and apply_move with each of the 12 tokens; and a move that returns false
\* leaves stickers and history unchanged.
C33_DegenerateCubeNeverThrows ==
    /\ \A h \in Handles :
          mem.cubes[h].live =>
              /\ SizeOf(mem, h) = 0
              /\ FacesOf(mem, h) = NewFaces(0)
              /\ ~is_solved_call(FacesOf(mem, h), SizeOf(mem, h)).raises
              /\ is_valid_state(FacesOf(mem, h), SizeOf(mem, h)) \in BOOLEAN
              /\ get_state(mem, h).size = 0
    /\ \A i \in 1..Len(returned["cube"]) : returned["cube"][i] \in BOOLEAN
    /\ Len(returned["cube"]) = Len(submitted["cube"])
    /\ With(Kept(submitted["cube"], returned["cube"]), LAMBDA kept :
             \E k \in 0..Len(kept) : Hist = SubSeq(kept, k + 1, Len(kept)))

\* what of C33 holds on the cube of size 0: every call but is_solved returns a value;
\* apply_move returns false for the eight tokens of U, D, F and B, whose first strip
\* statement raises, and for the tokens outside the alphabet, leaving the history as it
\* was; it returns true for the four tokens of R and L, whose loops run over an empty
\* range, and records them; the grids stay empty throughout.
DegenerateCubeReturnsButForIsSolved ==
    /\ \A h \in Handles :
          mem.cubes[h].live =>
              /\ SizeOf(mem, h) = 0
              /\ FacesOf(mem, h) = NewFaces(0)
              /\ is_solved_call(FacesOf(mem, h), SizeOf(mem, h)).raises
              /\ is_valid_state(FacesOf(mem, h), SizeOf(mem, h))
              /\ get_state(mem, h).size = 0
              /\ \A key \in {"front", "back", "left", "right", "top", "bottom"} :
                    get_state(mem, h)[key] = <<>>
    /\ Len(returned["cube"]) = Len(submitted["cube"])
    /\ \A i \in 1..Len(returned["cube"]) :
          returned["cube"][i] = (submitted["cube"][i] \in {"R", "R'", "L", "L'"})
    /\ With(Kept(submitted["cube"], returned["cube"]), LAMBDA kept :
             \E k \in 0..Len(kept) : Hist = SubSeq(kept, k + 1, Len(kept)))

\* on the cube of size 0, U was refused and R' accepted and recorded
DegenerateMovesCaughtOrRecorded ==
    /\ N = 0
    /\ submitted["cube"] = <<"U", "R'">>
    /\ returned["cube"] = <<FALSE, TRUE>>
    /\ Hist = <<"R'">>

\* the stickers in which two exported states differ: key and position in the flat list
Differing(before, after) ==
    {<<key, k>> \in (DOMAIN KeyFace) \X (1..(before.size * before.size)) :
        before[key][k] # after[key][k]}

\* C34: for every size 2..7 and every state reached from a fresh cube, each of the 12
\* recognized moves returns true and changes the exported state: get_state() after the
\* move differs from get_state() before it in at least one sticker.  On a cube whose
\* stickers are all different each move carries the three stickers of some corner to the
\* cells of another corner; the corners of a reachable cube carry different triples of
\* colors (C25), so a sticker of that corner changes in every reachable state.
C34_MoveChangesExportedState ==
    \A move \in Moves :
        /\ With(apply_move(mem, "cube", move), LAMBDA moved :
               /\ moved.ret
               /\ get_state(moved.mem, "cube").size = N
               /\ Differing(get_state(mem, "cube"), get_state(moved.mem, "cube")) # {})
        /\ Consistent(Cur, Corners(N))
        /\ Hist = <<>> =>
              \A after \in {dispatch(Labelled(N), N, move)} :
                  \E corner \in Corners(N) :
                      /\ ColorsAt(after, corner) \in Corners(N)
                      /\ ColorsAt(after, corner) # corner

\* a cube of size 3 after U and U again: the second U left the exported top face as it
\* was, all white, and changed stickers of the four side faces
C34_Witness ==
    /\ N = 3
    /\ Hist = <<"U", "U">>
    /\ With(get_state(apply_move(construct(EmptyMem, "cube", N), "cube", "U").mem, "cube"),
            LAMBDA before :
                /\ before.top = get_state(mem, "cube").top
                /\ {d[1] : d \in Differing(before, get_state(mem, "cube"))}
                       = {"front", "back", "left", "right"})

====
